---- MODULE Spec2Model ----
(***************************************************************************)
(* Harvest-Seer crop risk scoring: the rule engine (risk_calculator.py),   *)
(* the learned model (model.py), the recommendation engine                 *)
(* (recommendations.py) and the assess_risk handler (app.py).              *)
(*                                                                         *)
(* Numbers.  Python floats are modelled as exact fixed-point integers:     *)
(*   - a factor risk r is the integer r * FOne        (FOne  = 1.0)        *)
(*   - a rule weight w is the integer w * WOne        (WOne  = 1.0)        *)
(*   - a risk score  s is the integer s * FOne * WOne (SOne  = 1.0)        *)
(*   - temperature is in degrees, humidity in percent, soil moisture,      *)
(*     ndvi and rainfall index in hundredths.                              *)
(* Every tolerance of the catalog divides FOne (twice the ndvi tolerance   *)
(* does too), so deviation / tolerance is exact in units of 1/FOne.        *)
(***************************************************************************)
EXTENDS Integers, Sequences, FiniteSets, TLC

VARIABLES
    self,   \* the CropRiskModel object `model` of app.py (its attributes)
    file,   \* models/trained_model.pkl: "absent" or the dumped dict
    saved,  \* history: the attributes save_model last dumped to the file
    inp,    \* the inputs of the pure-function specification
    last,   \* the outcome of the most recent call
    writer, \* a train or load_model call in progress in another thread
    reader  \* a predict_risk call in progress in another thread

vars == <<self, file, saved, inp, last, writer, reader>>

----------------------------------------------------------------------------
(* Units *)

FOne == 120
WOne == 100
SOne == FOne * WOne

Abs(x) == IF x < 0 THEN -x ELSE x
Min(a, b) == IF a < b THEN a ELSE b
Max(a, b) == IF a > b THEN a ELSE b

----------------------------------------------------------------------------
(* The catalog data/crop_database.json, as json.load returns it            *)

Factors == <<"temperature", "moisture", "humidity", "ndvi", "rainfall">>
FactorSet == {Factors[i] : i \in 1..Len(Factors)}

Categories == {"high_moisture", "moderate_moisture", "drought_tolerant",
               "temperature_sensitive"}

CropDb ==
    [crops |->
       [rice   |-> [category |-> "high_moisture",
                    optimal_temp |-> 25, temp_tolerance |-> 5,
                    optimal_moisture |-> 80, moisture_tolerance |-> 15,
                    optimal_humidity |-> 80, humidity_tolerance |-> 10,
                    optimal_ndvi |-> 70, ndvi_tolerance |-> 20,
                    optimal_rainfall |-> 120, rainfall_tolerance |-> 30],
        wheat  |-> [category |-> "temperature_sensitive",
                    optimal_temp |-> 20, temp_tolerance |-> 5,
                    optimal_moisture |-> 60, moisture_tolerance |-> 15,
                    optimal_humidity |-> 60, humidity_tolerance |-> 10,
                    optimal_ndvi |-> 60, ndvi_tolerance |-> 20,
                    optimal_rainfall |-> 80, rainfall_tolerance |-> 20],
        millet |-> [category |-> "drought_tolerant",
                    optimal_temp |-> 30, temp_tolerance |-> 6,
                    optimal_moisture |-> 40, moisture_tolerance |-> 10,
                    optimal_humidity |-> 50, humidity_tolerance |-> 15,
                    optimal_ndvi |-> 50, ndvi_tolerance |-> 15,
                    optimal_rainfall |-> 50, rainfall_tolerance |-> 20],
        maize  |-> [category |-> "moderate_moisture",
                    optimal_temp |-> 24, temp_tolerance |-> 4,
                    optimal_moisture |-> 65, moisture_tolerance |-> 15,
                    optimal_humidity |-> 65, humidity_tolerance |-> 10,
                    optimal_ndvi |-> 65, ndvi_tolerance |-> 20,
                    optimal_rainfall |-> 100, rainfall_tolerance |-> 30]]]

CatalogCrops == DOMAIN CropDb.crops

\* A crop_db attribute holds the dict loaded from a catalog file; the model
\* names the dict by the file it was loaded from.
CatalogPath == "data/crop_database.json"
Catalog(path) == CropDb

----------------------------------------------------------------------------
(* risk_calculator.py: RiskCalculator                                      *)

\* A variant of _calculate_temperature_risk that adds the extreme-temperature
\* bonus without clamping the sum again.
_calculate_temperature_risk_noreclamp(temperature, crop_data) ==
    LET deviation == Abs(temperature - crop_data.optimal_temp)
        risk == Min((deviation * FOne) \div crop_data.temp_tolerance, FOne)
    IN  IF temperature > crop_data.optimal_temp + crop_data.temp_tolerance * 2
        THEN risk + (2 * FOne) \div 10
        ELSE IF temperature < crop_data.optimal_temp - crop_data.temp_tolerance * 2
        THEN risk + (2 * FOne) \div 10
        ELSE risk

_calculate_temperature_risk(temperature, crop_data) ==
    LET deviation == Abs(temperature - crop_data.optimal_temp)
        risk == Min((deviation * FOne) \div crop_data.temp_tolerance, FOne)
    IN  IF temperature > crop_data.optimal_temp + crop_data.temp_tolerance * 2
        THEN Min(risk + (2 * FOne) \div 10, FOne)
        ELSE IF temperature < crop_data.optimal_temp - crop_data.temp_tolerance * 2
        THEN Min(risk + (2 * FOne) \div 10, FOne)
        ELSE risk

\* A variant of _calculate_moisture_risk whose dry-soil bonus applies to
\* every moisture below the optimum.
_calculate_moisture_risk_bonus_below_optimal(moisture, crop_data) ==
    LET deviation == Abs(moisture - crop_data.optimal_moisture)
        risk == Min((deviation * FOne) \div crop_data.moisture_tolerance, FOne)
    IN  IF moisture < crop_data.optimal_moisture
        THEN Min(risk + (3 * FOne) \div 10, FOne)
        ELSE risk

_calculate_moisture_risk(moisture, crop_data) ==
    LET deviation == Abs(moisture - crop_data.optimal_moisture)
        risk == Min((deviation * FOne) \div crop_data.moisture_tolerance, FOne)
    IN  IF moisture < crop_data.optimal_moisture - crop_data.moisture_tolerance
        THEN Min(risk + (3 * FOne) \div 10, FOne)
        ELSE risk

_calculate_humidity_risk(humidity, crop_data) ==
    LET deviation == Abs(humidity - crop_data.optimal_humidity)
    IN  Min((deviation * FOne) \div crop_data.humidity_tolerance, FOne)

\* A variant of _calculate_ndvi_risk that scores an NDVI above the optimum
\* like one below it.
_calculate_ndvi_risk_symmetric(ndvi, crop_data) ==
    LET deviation == Abs(ndvi - crop_data.optimal_ndvi)
    IN  Min((deviation * FOne) \div crop_data.ndvi_tolerance, FOne)

_calculate_ndvi_risk(ndvi, crop_data) ==
    IF ndvi < crop_data.optimal_ndvi
    THEN LET deviation == crop_data.optimal_ndvi - ndvi
         IN  Min((deviation * FOne) \div crop_data.ndvi_tolerance, FOne)
    ELSE LET deviation == ndvi - crop_data.optimal_ndvi
         IN  Min((deviation * FOne) \div (crop_data.ndvi_tolerance * 2),
                 (5 * FOne) \div 10)

\* A variant of _calculate_rainfall_risk that adds the drought bonus without
\* clamping the sum again.
_calculate_rainfall_risk_noreclamp(rainfall, crop_data) ==
    LET deviation == Abs(rainfall - crop_data.optimal_rainfall)
        risk == Min((deviation * FOne) \div crop_data.rainfall_tolerance, FOne)
    IN  IF rainfall < crop_data.optimal_rainfall - crop_data.rainfall_tolerance
        THEN risk + (2 * FOne) \div 10
        ELSE risk

_calculate_rainfall_risk(rainfall, crop_data) ==
    LET deviation == Abs(rainfall - crop_data.optimal_rainfall)
        risk == Min((deviation * FOne) \div crop_data.rainfall_tolerance, FOne)
    IN  IF rainfall < crop_data.optimal_rainfall - crop_data.rainfall_tolerance
        THEN Min(risk + (2 * FOne) \div 10, FOne)
        ELSE risk

\* A weight n/d (the rule tables are in hundredths).
W(n) == [num |-> n, den |-> WOne]

\* A variant of the weight tables whose high_moisture row weighs moisture
\* 0.45: the row sums to 1.10.
CategoryWeightTableOverweight ==
    [high_moisture |->
        [temperature |-> W(15), moisture |-> W(45), humidity |-> W(20),
         ndvi |-> W(20), rainfall |-> W(10)],
     moderate_moisture |->
        [temperature |-> W(20), moisture |-> W(25), humidity |-> W(20),
         ndvi |-> W(25), rainfall |-> W(10)],
     drought_tolerant |->
        [temperature |-> W(30), moisture |-> W(15), humidity |-> W(20),
         ndvi |-> W(25), rainfall |-> W(10)],
     temperature_sensitive |->
        [temperature |-> W(35), moisture |-> W(20), humidity |-> W(15),
         ndvi |-> W(20), rainfall |-> W(10)]]

CategoryWeightTable ==
    [high_moisture |->
        [temperature |-> W(15), moisture |-> W(35), humidity |-> W(20),
         ndvi |-> W(20), rainfall |-> W(10)],
     moderate_moisture |->
        [temperature |-> W(20), moisture |-> W(25), humidity |-> W(20),
         ndvi |-> W(25), rainfall |-> W(10)],
     drought_tolerant |->
        [temperature |-> W(30), moisture |-> W(15), humidity |-> W(20),
         ndvi |-> W(25), rainfall |-> W(10)],
     temperature_sensitive |->
        [temperature |-> W(35), moisture |-> W(20), humidity |-> W(15),
         ndvi |-> W(20), rainfall |-> W(10)]]

\* A variant of _get_category_weights whose default is the first table.
_get_category_weights_default_first(category) ==
    IF category \in DOMAIN CategoryWeightTable
    THEN CategoryWeightTable[category]
    ELSE CategoryWeightTable["high_moisture"]

_get_category_weights(category) ==
    IF category \in DOMAIN CategoryWeightTable
    THEN CategoryWeightTable[category]
    ELSE CategoryWeightTable["moderate_moisture"]

\* A variant with the first comparison inclusive: 0.3 itself would be Low.
RiskCalculator_get_risk_level_inclusive(risk_score) ==
    IF risk_score * 10 <= 3 * SOne THEN "Low Risk"
    ELSE IF risk_score * 10 < 6 * SOne THEN "Medium Risk"
    ELSE "High Risk"

RiskCalculator_get_risk_level(risk_score) ==
    IF risk_score * 10 < 3 * SOne THEN "Low Risk"
    ELSE IF risk_score * 10 < 6 * SOne THEN "Medium Risk"
    ELSE "High Risk"

\* Python's max(d, key=d.get): the keys in insertion order, a later key
\* replacing the best one only when its value is strictly greater.
RECURSIVE MaxKeyFrom(_, _, _)
MaxKeyFrom(d, i, best) ==
    IF i > Len(Factors) THEN best
    ELSE IF d[Factors[i]] > d[best]
         THEN MaxKeyFrom(d, i + 1, Factors[i])
         ELSE MaxKeyFrom(d, i + 1, best)

\* A variant that lets a later key win a tie.
RECURSIVE MaxKeyFromLast(_, _, _)
MaxKeyFromLast(d, i, best) ==
    IF i > Len(Factors) THEN best
    ELSE IF d[Factors[i]] >= d[best]
         THEN MaxKeyFromLast(d, i + 1, Factors[i])
         ELSE MaxKeyFromLast(d, i + 1, best)

WeakestFactorLastWins(factor_risks) == MaxKeyFromLast(factor_risks, 2, Factors[1])

WeakestFactor(factor_risks) == MaxKeyFrom(factor_risks, 2, Factors[1])

calculate_risk_score(crop_db, crop, o) ==
    LET crop_data == crop_db.crops[crop]
        temp_risk == _calculate_temperature_risk(o.temperature, crop_data)
        moisture_risk == _calculate_moisture_risk(o.moisture, crop_data)
        humidity_risk == _calculate_humidity_risk(o.humidity, crop_data)
        ndvi_risk == _calculate_ndvi_risk(o.ndvi, crop_data)
        rainfall_risk == _calculate_rainfall_risk(o.rainfall, crop_data)
        weights == _get_category_weights(crop_data.category)
        raw == weights.temperature.num * temp_risk
             + weights.moisture.num * moisture_risk
             + weights.humidity.num * humidity_risk
             + weights.ndvi.num * ndvi_risk
             + weights.rainfall.num * rainfall_risk
        risk_score == Max(0, Min(SOne, raw))
        factor_risks == [temperature |-> temp_risk, moisture |-> moisture_risk,
                         humidity |-> humidity_risk, ndvi |-> ndvi_risk,
                         rainfall |-> rainfall_risk]
    IN  [risk_score |-> risk_score,
         risk_level |-> RiskCalculator_get_risk_level(risk_score),
         factor_risks |-> factor_risks,
         weights |-> weights,
         weakest_factor |-> WeakestFactor(factor_risks),
         current_values |-> o]

----------------------------------------------------------------------------
(* model.py: CropRiskModel.  The scikit-learn objects are modelled by what *)
(* the code relies on: a LabelEncoder by its classes_, a StandardScaler    *)
(* and a RandomForestRegressor by the training data they were fitted on    *)
(* (a data id) and the number of columns they were fitted with.            *)

\* Distinct contents of a training DataFrame (data id 0: the shipped file).
MaxData == 2
\* Largest number of rows of a training DataFrame.
MaxSamples == 7

\* sorted() order of the labels; LabelEncoder puts a missing value last.
LabelOrder == <<"drought_tolerant", "high_moisture", "maize", "millet",
                "moderate_moisture", "quinoa", "rice",
                "temperature_sensitive", "wheat", "nan">>
LabelRank(x) == CHOOSE i \in 1..Len(LabelOrder) : LabelOrder[i] = x

FeatureColumns ==
    <<"temperature", "moisture", "humidity", "ndvi", "rainfall",
      "crop_encoded", "crop_category_encoded",
      "temp_moisture", "humidity_ndvi", "temp_humidity",
      "temp_deviation", "moisture_deviation", "humidity_deviation",
      "ndvi_deviation", "rainfall_deviation">>

\* Number of columns prepare_features has built before its row loop.
NColsBeforeLoop == 10

\* CropRiskModel.__init__
NewCropRiskModel ==
    [model |-> [fitted |-> FALSE, data |-> 0, n_features |-> 0],
     scaler |-> [fitted |-> FALSE, data |-> 0, n_features |-> 0],
     crop_encoder |-> [fitted |-> FALSE, classes |-> {}],
     feature_columns |-> <<>>,       \* None
     crop_db |-> CatalogPath,
     is_trained |-> FALSE]

\* The training DataFrames: df.crops the values of its crop column, df.n its
\* number of rows, df.id what distinguishes its numbers.
TrainCropSets == {{}, {"rice"}, {"rice", "wheat"}, {"rice", "quinoa"},
                  CatalogCrops}
\* Row counts tried: none, one, too few for the cross-validation, enough.
SampleCounts == {0, 1, 4, MaxSamples}
DataFrames ==
    {df \in [id : 1..MaxData, crops : TrainCropSets, n : SampleCounts] :
        /\ df.n >= Cardinality(df.crops)
        /\ (df.n = 0) = (df.crops = {})}

\* LabelEncoder.fit_transform(y): classes_ becomes the distinct labels.
LabelEncoderFit(labels) == [fitted |-> TRUE, classes |-> labels]

\* LabelEncoder.transform([x])[0] for a label x among classes_.
LabelCode(enc, x) ==
    Cardinality({c \in enc.classes : LabelRank(c) < LabelRank(x)})

\* Line 39: the encoder is fitted on the crop column.
FitCropEncoder(s, df) ==
    [s EXCEPT !.crop_encoder = LabelEncoderFit(df.crops)]

\* Lines 42-45: df['crop'].map(...), NaN for a crop the catalog lacks.
CropCategories(s, df) ==
    {IF c \in DOMAIN Catalog(s.crop_db).crops THEN Catalog(s.crop_db).crops[c].category
     ELSE "nan" : c \in df.crops}

\* A variant of line 46 that fits a second encoder object and leaves
\* crop_encoder fitted on the crop names.
FitCategoryEncoderSeparate(s, df) == s

\* Line 46: the same encoder is fitted again, on the category column.
FitCategoryEncoder(s, df) ==
    [s EXCEPT !.crop_encoder = LabelEncoderFit(CropCategories(s, df))]

\* Line 62: the columns built so far (the row loop adds the five deviation
\* columns, and runs no iteration on an empty DataFrame).
SetFeatureColumns(s, df) ==
    [s EXCEPT !.feature_columns =
        IF df.n = 0 THEN SubSeq(FeatureColumns, 1, NColsBeforeLoop)
        ELSE FeatureColumns]

\* Line 79: scaler.fit_transform(X_train).
FitScaler(s, df) ==
    [s EXCEPT !.scaler = [fitted |-> TRUE, data |-> df.id,
                          n_features |-> Len(s.feature_columns)]]

\* Line 83: model.fit(X_train_scaled, y_train).
FitModel(s, df) ==
    [s EXCEPT !.model = [fitted |-> TRUE, data |-> df.id,
                         n_features |-> Len(s.feature_columns)]]

\* Line 109.
SetTrained(s) == [s EXCEPT !.is_trained = TRUE]

\* train_test_split(test_size=0.2): n_test = ceil(0.2 n), the rest trains.
NTest(n) == (2 * n + 9) \div 10
NTrain(n) == n - NTest(n)

\* cross_val_score(cv=5) needs at least this many training rows.
CvFolds == 5

Raised(s, e, l) == [self |-> s, status |-> "raised", error |-> e, line |-> l]

\* train(df), prepare_features(df) included.  nan_ok: whether the installed
\* LabelEncoder accepts a column that mixes strings and NaN (it depends on
\* the scikit-learn version).
train(s, df, nan_ok) ==
    LET s1 == FitCropEncoder(s, df)
        s2 == FitCategoryEncoder(s1, df)
        s3 == SetFeatureColumns(s2, df)
        s4 == FitScaler(s3, df)
        s5 == FitModel(s4, df)
        s6 == SetTrained(s5)
        cats == CropCategories(s1, df)
    IN  IF "nan" \in cats /\ cats # {"nan"} /\ ~nan_ok
        THEN Raised(s1, "TypeError", 46)
        ELSE IF ~(df.crops \subseteq DOMAIN Catalog(s.crop_db).crops)
        THEN Raised(s2, "KeyError", 55)
        ELSE IF NTrain(df.n) = 0
        THEN Raised(s3, "ValueError", 74)
        ELSE IF NTrain(df.n) < CvFolds
        THEN Raised(s5, "ValueError", 95)
        ELSE [self |-> s6, status |-> "ok", error |-> "none", line |-> 117]

----------------------------------------------------------------------------
(* model.py: predict_risk                                                  *)

\* prepare_features, lines 36-60: the value a training row (its crop's
\* catalog entry c, its observation o, its two codes) has in the column of
\* a given name.
TrainingColumnValue(column, c, o, crop_code, category_code) ==
    CASE column = "temperature" -> o.temperature
      [] column = "moisture" -> o.moisture
      [] column = "humidity" -> o.humidity
      [] column = "ndvi" -> o.ndvi
      [] column = "rainfall" -> o.rainfall
      [] column = "crop_encoded" -> crop_code
      [] column = "crop_category_encoded" -> category_code
      [] column = "temp_moisture" -> o.temperature * o.moisture
      [] column = "humidity_ndvi" -> o.humidity * o.ndvi
      [] column = "temp_humidity" -> o.temperature * o.humidity
      [] column = "temp_deviation" -> Abs(o.temperature - c.optimal_temp)
      [] column = "moisture_deviation" -> Abs(o.moisture - c.optimal_moisture)
      [] column = "humidity_deviation" -> Abs(o.humidity - c.optimal_humidity)
      [] column = "ndvi_deviation" -> Abs(o.ndvi - c.optimal_ndvi)
      [] column = "rainfall_deviation" -> Abs(o.rainfall - c.optimal_rainfall)

\* A variant of the feature vector with humidity * ndvi and
\* temperature * humidity in each other's place.
FeatureVectorOfSwapped(c, o, crop_code, category_code) ==
    <<o.temperature, o.moisture, o.humidity, o.ndvi, o.rainfall,
          crop_code,
          category_code,
          o.temperature * o.moisture,
          o.temperature * o.humidity,
          o.humidity * o.ndvi,
          Abs(o.temperature - c.optimal_temp),
          Abs(o.moisture - c.optimal_moisture),
          Abs(o.humidity - c.optimal_humidity),
          Abs(o.ndvi - c.optimal_ndvi),
          Abs(o.rainfall - c.optimal_rainfall)>>

\* Lines 126-138: the feature vector, in the order the code lists it, given
\* the two codes the encoder returned.
FeatureVectorOf(c, o, crop_code, category_code) ==
    <<o.temperature, o.moisture, o.humidity, o.ndvi, o.rainfall,
          crop_code,
          category_code,
          o.temperature * o.moisture,
          o.humidity * o.ndvi,
          o.temperature * o.humidity,
          Abs(o.temperature - c.optimal_temp),
          Abs(o.moisture - c.optimal_moisture),
          Abs(o.humidity - c.optimal_humidity),
          Abs(o.ndvi - c.optimal_ndvi),
          Abs(o.rainfall - c.optimal_rainfall)>>

FeatureVector(s, crop, o) ==
    LET c == Catalog(s.crop_db).crops[crop]
    IN  FeatureVectorOf(c, o, LabelCode(s.crop_encoder, crop),
                        LabelCode(s.crop_encoder, c.category))

\* scaler.transform: each column shifted by a mean the fitted data fixed.
ScalerTransform(scaler, x) ==
    [i \in 1..Len(x) |-> x[i] - 10 * scaler.data]

RECURSIVE WeightedSum(_, _)
WeightedSum(x, i) == IF i > Len(x) THEN 0 ELSE i * x[i] + WeightedSum(x, i + 1)

\* model.predict(x)[0]: a value the fitted forest fixes for x, in score
\* units; the training targets, and so the prediction, need not lie in
\* [0, 1] (here from -0.2 to 1.3).
ForestPredict(model, x) ==
    (((WeightedSum(x, 1) + 7 * model.data) % 16) - 2) * (SOne \div 10)

\* model.feature_importances_: one importance per fitted column, in
\* hundredths; all zero for a forest that never splits.
FeatureImportances(model) ==
    [i \in 1..model.n_features |->
        IF model.data % 3 = 2 THEN 0
        ELSE IF i = 1 + (model.data % 5) THEN 30
        ELSE 5]

\* Which of the substrings tested by _create_risk_formula a column name holds.
Substrings ==
    [f \in {FeatureColumns[i] : i \in 1..Len(FeatureColumns)} |->
        CASE f = "temp_moisture" -> {"temp_"}
          [] f = "temp_humidity" -> {"temp_"}
          [] f = "humidity_ndvi" -> {"humidity_"}
          [] f = "temp_deviation" -> {"temp_", "deviation"}
          [] f = "moisture_deviation" -> {"moisture_", "deviation"}
          [] f = "humidity_deviation" -> {"humidity_", "deviation"}
          [] f = "ndvi_deviation" -> {"ndvi_", "deviation"}
          [] f = "rainfall_deviation" -> {"rainfall_", "deviation"}
          [] OTHER -> {}]

\* A variant of FactorOfFeature that attributes every column holding a
\* factor's prefix to that factor, without asking for "deviation".
FactorOfFeatureAnyPrefix(feature) ==
    IF feature \in FactorSet THEN feature
    ELSE IF "temp_" \in Substrings[feature] THEN "temperature"
    ELSE IF "moisture_" \in Substrings[feature] THEN "moisture"
    ELSE IF "humidity_" \in Substrings[feature] THEN "humidity"
    ELSE IF "ndvi_" \in Substrings[feature] THEN "ndvi"
    ELSE IF "rainfall_" \in Substrings[feature] THEN "rainfall"
    ELSE ""

\* Lines 175-194: the factor a column's importance is added to ("" for none).
FactorOfFeature(feature) ==
    IF feature \in FactorSet THEN feature
    ELSE IF {"temp_", "deviation"} \subseteq Substrings[feature] THEN "temperature"
    ELSE IF {"moisture_", "deviation"} \subseteq Substrings[feature] THEN "moisture"
    ELSE IF {"humidity_", "deviation"} \subseteq Substrings[feature] THEN "humidity"
    ELSE IF {"ndvi_", "deviation"} \subseteq Substrings[feature] THEN "ndvi"
    ELSE IF {"rainfall_", "deviation"} \subseteq Substrings[feature] THEN "rainfall"
    ELSE ""

RECURSIVE BucketSum(_, _, _, _)
BucketSum(factor, feature_importance, feature_names, i) ==
    IF i > Len(feature_names) THEN 0
    ELSE (IF FactorOfFeature(feature_names[i]) = factor
          THEN feature_importance[i] ELSE 0)
         + BucketSum(factor, feature_importance, feature_names, i + 1)

\* _create_risk_formula: bucket sums, divided by their total when it is > 0.
_create_risk_formula(crop, feature_importance, feature_names) ==
    LET factor_weights ==
            [f \in FactorSet |->
                BucketSum(f, feature_importance, feature_names, 1)]
        total_weight == factor_weights.temperature + factor_weights.moisture
                      + factor_weights.humidity + factor_weights.ndvi
                      + factor_weights.rainfall
    IN  [f \in FactorSet |->
            IF total_weight > 0
            THEN [num |-> factor_weights[f], den |-> total_weight]
            ELSE [num |-> factor_weights[f], den |-> 1]]

\* A variant of _get_risk_level with 0.6 itself still Medium.
CropRiskModel_get_risk_level_inclusive(risk_score) ==
    IF risk_score * 10 < 3 * SOne THEN "Low Risk"
    ELSE IF risk_score * 10 <= 6 * SOne THEN "Medium Risk"
    ELSE "High Risk"

CropRiskModel_get_risk_level(risk_score) ==
    IF risk_score * 10 < 3 * SOne THEN "Low Risk"
    ELSE IF risk_score * 10 < 6 * SOne THEN "Medium Risk"
    ELSE "High Risk"

Raise(e, l) == [status |-> "raised", error |-> e, line |-> l]

\* A variant of line 145 that leaves the raw prediction unclamped.
ClampScoreMissing(raw) == raw

\* Line 145.
ClampScore(raw) == Max(0, Min(SOne, raw))

\* Lines 39 and 46 of prepare_features: the codes fit_transform writes to
\* the crop_encoded and crop_category_encoded columns for the rows of crop c.
TrainingCodes(s, crops, c) ==
    LET df == [crops |-> crops]
    IN  [crop_code |-> LabelCode(LabelEncoderFit(crops), c),
         category_code |->
            LabelCode(LabelEncoderFit(CropCategories(s, df)),
                      Catalog(s.crop_db).crops[c].category)]

\* Lines 128-129 of predict_risk: the two codes put in the feature vector,
\* or the failure of crop_encoder.transform.
InferenceCodes(s, crop) ==
    LET enc == s.crop_encoder
        crops == Catalog(s.crop_db).crops
    IN  IF ~enc.fitted \/ crop \notin enc.classes \/ crop \notin DOMAIN crops
        THEN [status |-> "raised", line |-> 128]
        ELSE IF crops[crop].category \notin enc.classes
        THEN [status |-> "raised", line |-> 129]
        ELSE [status |-> "ok",
              crop_code |-> LabelCode(enc, crop),
              category_code |-> LabelCode(enc, crops[crop].category)]

\* Lines 125-159 of predict_risk: what it returns, or the exception it
\* raises and the line that raises it.
predict_risk_body(s, crop, o) ==
    IF ~s.crop_encoder.fitted THEN Raise("NotFittedError", 128)
    ELSE IF crop \notin s.crop_encoder.classes THEN Raise("ValueError", 128)
    ELSE IF crop \notin DOMAIN Catalog(s.crop_db).crops THEN Raise("KeyError", 129)
    ELSE IF Catalog(s.crop_db).crops[crop].category \notin s.crop_encoder.classes
         THEN Raise("ValueError", 129)
    ELSE IF ~s.scaler.fitted THEN Raise("NotFittedError", 141)
    ELSE IF s.scaler.n_features # Len(FeatureColumns)
         THEN Raise("ValueError", 141)
    ELSE IF ~s.model.fitted THEN Raise("NotFittedError", 144)
    ELSE IF s.model.n_features # Len(FeatureColumns)
         THEN Raise("ValueError", 144)
    ELSE IF s.feature_columns = <<>> THEN Raise("TypeError", 152)
    ELSE IF Len(s.feature_columns) > s.model.n_features
         THEN Raise("IndexError", 152)
    ELSE
        LET features == FeatureVector(s, crop, o)
            features_scaled == ScalerTransform(s.scaler, features)
            risk_score == ClampScore(ForestPredict(s.model, features_scaled))
            feature_importance == FeatureImportances(s.model)
            feature_names == s.feature_columns
        IN  [status |-> "ok",
             risk_score |-> risk_score,
             risk_level |-> CropRiskModel_get_risk_level(risk_score),
             formula_weights |->
                _create_risk_formula(crop, feature_importance, feature_names),
             feature_importance |->
                [i \in 1..Len(feature_names) |-> feature_importance[i]]]

\* A variant of predict_risk without the is_trained guard of lines 122-123.
predict_risk_unguarded(s, crop, o) == predict_risk_body(s, crop, o)

\* predict_risk.
predict_risk(s, crop, o) ==
    IF ~s.is_trained THEN Raise("ValueError", 123)
    ELSE predict_risk_body(s, crop, o)

----------------------------------------------------------------------------
(* model.py: save_model, load_model                                        *)

\* Lines 219-227: the dict joblib.dump writes.
ModelData(s) ==
    [model |-> s.model, scaler |-> s.scaler, crop_encoder |-> s.crop_encoder,
     feature_columns |-> s.feature_columns, crop_db |-> s.crop_db]

\* save_model: the file afterwards, and whether it raised.
save_model(s, f) ==
    IF ~s.is_trained
    THEN [file |-> f, status |-> "raised", error |-> "ValueError", line |-> 215]
    ELSE [file |-> [exists |-> TRUE, model_data |-> ModelData(s)],
          status |-> "ok", error |-> "none", line |-> 228]

\* A variant of lines 236-241 that forgets to restore the encoder.
LoadAssignmentsNoEncoder(s, model_data) ==
    [s EXCEPT !.model = model_data.model,
              !.scaler = model_data.scaler,
              !.feature_columns = model_data.feature_columns,
              !.crop_db = model_data.crop_db,
              !.is_trained = TRUE]

\* Lines 236-241.
LoadAssignments(s, model_data) ==
    [s EXCEPT !.model = model_data.model,
              !.scaler = model_data.scaler,
              !.crop_encoder = model_data.crop_encoder,
              !.feature_columns = model_data.feature_columns,
              !.crop_db = model_data.crop_db,
              !.is_trained = TRUE]

load_model(s, f) ==
    IF ~f.exists
    THEN [self |-> s, status |-> "raised", error |-> "FileNotFoundError",
          line |-> 233]
    ELSE [self |-> LoadAssignments(s, f.model_data), status |-> "ok",
          error |-> "none", line |-> 243]

NoFile == [exists |-> FALSE]

\* A model file left at models/trained_model.pkl by another build of the
\* trainer: its encoder knows the crop names and the categories, its
\* scaler and forest were fitted on the 15 columns (data id 0).
ShippedFile ==
    [exists |-> TRUE,
     model_data |->
        [model |-> [fitted |-> TRUE, data |-> 0,
                    n_features |-> Len(FeatureColumns)],
         scaler |-> [fitted |-> TRUE, data |-> 0,
                     n_features |-> Len(FeatureColumns)],
         crop_encoder |-> LabelEncoderFit(CatalogCrops \cup Categories),
         feature_columns |-> FeatureColumns,
         crop_db |-> CatalogPath]]

----------------------------------------------------------------------------
(* risk_calculator.py: compare_with_optimal; app.py: assess_risk           *)

\* field_mapping of compare_with_optimal: the catalog fields of a factor.
OptimalOf(c, factor) ==
    CASE factor = "temperature" -> c.optimal_temp
      [] factor = "moisture" -> c.optimal_moisture
      [] factor = "humidity" -> c.optimal_humidity
      [] factor = "ndvi" -> c.optimal_ndvi
      [] factor = "rainfall" -> c.optimal_rainfall

ToleranceOf(c, factor) ==
    CASE factor = "temperature" -> c.temp_tolerance
      [] factor = "moisture" -> c.moisture_tolerance
      [] factor = "humidity" -> c.humidity_tolerance
      [] factor = "ndvi" -> c.ndvi_tolerance
      [] factor = "rainfall" -> c.rainfall_tolerance

\* deviation_percent is in units of 1/FOne percent.
compare_with_optimal(crop_db, crop, current_values) ==
    LET optimal == crop_db.crops[crop]
    IN  [factor \in FactorSet |->
            LET current == current_values[factor]
                optimal_val == OptimalOf(optimal, factor)
                tolerance == ToleranceOf(optimal, factor)
            IN  [current |-> current,
                 optimal |-> optimal_val,
                 tolerance |-> tolerance,
                 deviation |-> Abs(current - optimal_val),
                 within_range |-> Abs(current - optimal_val) <= tolerance,
                 deviation_percent |->
                    (Abs(current - optimal_val) * 100 * FOne) \div tolerance]]

----------------------------------------------------------------------------
(* recommendations.py: RecommendationEngine.  An entry keeps the fields    *)
(* the code computes from its inputs; the texts are kept by their issue    *)
(* label, the branch that chose them and the length of the action list.    *)

RecommendationEngine_get_risk_level(risk_score) ==
    IF risk_score * 10 < 3 * FOne THEN "Low"
    ELSE IF risk_score * 10 < 6 * FOne THEN "Medium"
    ELSE "High"

Advice(issue, branch, n_actions) ==
    [issue |-> issue, branch |-> branch, n_actions |-> n_actions]

_get_temperature_recommendation(current, optimal, deviation, tolerance) ==
    IF current > optimal + tolerance
    THEN Advice("High Temperature Stress", "too_high", 4)
    ELSE IF current < optimal - tolerance
    THEN Advice("Low Temperature Stress", "too_low", 4)
    ELSE Advice("Temperature within acceptable range", "in_range", 1)

_get_moisture_recommendation(current, optimal, deviation, tolerance) ==
    IF current < optimal - tolerance
    THEN Advice("Soil Moisture Deficit", "too_low", 4)
    ELSE IF current > optimal + tolerance
    THEN Advice("Excessive Soil Moisture", "too_high", 4)
    ELSE Advice("Soil moisture within optimal range", "in_range", 1)

_get_humidity_recommendation(current, optimal, deviation, tolerance) ==
    IF current > optimal + tolerance
    THEN Advice("High Humidity", "too_high", 4)
    ELSE IF current < optimal - tolerance
    THEN Advice("Low Humidity", "too_low", 4)
    ELSE Advice("Humidity within optimal range", "in_range", 1)

\* A variant of _get_ndvi_recommendation whose first branch is taken by
\* every NDVI below the optimal value.
_get_ndvi_recommendation_below_optimal(current, optimal, deviation, tolerance) ==
    IF current < optimal
    THEN Advice("Poor Vegetation Health (Low NDVI)", "too_low", 4)
    ELSE Advice("Good Vegetation Health", "in_range", 1)

_get_ndvi_recommendation(current, optimal, deviation, tolerance) ==
    IF current < optimal - tolerance
    THEN Advice("Poor Vegetation Health (Low NDVI)", "too_low", 4)
    ELSE Advice("Good Vegetation Health", "in_range", 1)

_get_rainfall_recommendation(current, optimal, deviation, tolerance) ==
    IF current < optimal - tolerance
    THEN Advice("Rainfall Deficit", "too_low", 4)
    ELSE IF current > optimal + tolerance
    THEN Advice("Excessive Rainfall", "too_high", 4)
    ELSE Advice("Rainfall within optimal range", "in_range", 1)

\* _analyze_factor, for a factor of field_mapping whose optimal_ key the
\* crop record holds.
_analyze_factor(factor, risk_score, current_value, optimal_ranges) ==
    LET optimal == OptimalOf(optimal_ranges, factor)
        tolerance == ToleranceOf(optimal_ranges, factor)
        deviation == Abs(current_value - optimal)
        advice ==
            CASE factor = "temperature" ->
                    _get_temperature_recommendation(current_value, optimal,
                                                    deviation, tolerance)
              [] factor = "moisture" ->
                    _get_moisture_recommendation(current_value, optimal,
                                                 deviation, tolerance)
              [] factor = "humidity" ->
                    _get_humidity_recommendation(current_value, optimal,
                                                 deviation, tolerance)
              [] factor = "ndvi" ->
                    _get_ndvi_recommendation(current_value, optimal,
                                             deviation, tolerance)
              [] factor = "rainfall" ->
                    _get_rainfall_recommendation(current_value, optimal,
                                                 deviation, tolerance)
    IN  [factor |-> factor,
         priority |-> risk_score,
         current_value |-> current_value,
         optimal_value |-> optimal,
         deviation |-> deviation,
         risk_level |-> RecommendationEngine_get_risk_level(risk_score),
         issue |-> advice.issue,
         branch |-> advice.branch,
         n_actions |-> advice.n_actions]

\* A variant of line 21 that also flags a risk of exactly 0.3.
IsSignificantInclusive(risk_score) == risk_score * 10 >= 3 * FOne

\* Line 21: risk_score > 0.3.
IsSignificant(risk_score) == risk_score * 10 > 3 * FOne

\* Lines 20-27: the entries in the order of factor_risks.
RECURSIVE FactorEntries(_, _, _, _)
FactorEntries(optimal_ranges, risk_analysis, current_values, i) ==
    IF i > Len(Factors) THEN <<>>
    ELSE LET factor == Factors[i]
             risk_score == risk_analysis.factor_risks[factor]
             rest == FactorEntries(optimal_ranges, risk_analysis,
                                   current_values, i + 1)
         IN  IF IsSignificant(risk_score)
             THEN <<_analyze_factor(factor, risk_score,
                                    current_values[factor], optimal_ranges)>>
                  \o rest
             ELSE rest

\* Where list.sort(key=priority, reverse=True) puts x in a list already
\* sorted: after every entry of priority at least x's (the sort is stable).
RECURSIVE InsertByPriority(_, _)
InsertByPriority(x, sorted) ==
    IF sorted = <<>> THEN <<x>>
    ELSE IF Head(sorted).priority >= x.priority
    THEN <<Head(sorted)>> \o InsertByPriority(x, Tail(sorted))
    ELSE <<x>> \o sorted

RECURSIVE SortFrom(_, _, _)
SortFrom(recommendations, i, sorted) ==
    IF i > Len(recommendations) THEN sorted
    ELSE SortFrom(recommendations, i + 1,
                  InsertByPriority(recommendations[i], sorted))

\* A variant of line 30 that leaves the entries in the order of the factors.
SortByPriorityMissing(recommendations) == recommendations

\* A variant of line 30 that sorts ascending and reverses the list: entries
\* of equal priority come out in the reverse of the order of the factors.
SortByPriorityThenReverse(recommendations) ==
    SortFrom([i \in 1..Len(recommendations) |->
                 recommendations[Len(recommendations) + 1 - i]], 1, <<>>)

\* Line 30.
SortByPriority(recommendations) == SortFrom(recommendations, 1, <<>>)

General(priority, risk_level, issue) ==
    [factor |-> "general", priority |-> priority, risk_level |-> risk_level,
     issue |-> issue, n_actions |-> 4]

\* A variant of _get_general_recommendations whose priority is the overall
\* risk score's level bound instead of the fixed 1.0 / 0.5 / 0.2.
_get_general_recommendations_bounds(risk_analysis) ==
    IF risk_analysis.risk_level = "High Risk"
    THEN <<General(FOne, "High", "High Overall Risk")>>
    ELSE IF risk_analysis.risk_level = "Medium Risk"
    THEN <<General((6 * FOne) \div 10, "Medium", "Moderate Risk")>>
    ELSE <<General((3 * FOne) \div 10, "Low", "Low Risk")>>

\* _get_general_recommendations
_get_general_recommendations(risk_analysis) ==
    IF risk_analysis.risk_level = "High Risk"
    THEN <<General(FOne, "High", "High Overall Risk")>>
    ELSE IF risk_analysis.risk_level = "Medium Risk"
    THEN <<General((5 * FOne) \div 10, "Medium", "Moderate Risk")>>
    ELSE <<General((2 * FOne) \div 10, "Low", "Low Risk")>>

\* generate_recommendations
generate_recommendations(crop_db, crop, risk_analysis, current_values) ==
    LET optimal_ranges == crop_db.crops[crop]
        recommendations ==
            SortByPriority(FactorEntries(optimal_ranges, risk_analysis,
                                         current_values, 1))
    IN  recommendations \o _get_general_recommendations(risk_analysis)

\* round(x, 3) of the value x / one, in thousandths (a tie goes to the even
\* neighbour).
Round3(x, one) ==
    LET q == (x * 1000) \div one
        r == (x * 1000) % one
    IN  IF 2 * r < one THEN q
        ELSE IF 2 * r > one THEN q + 1
        ELSE IF q % 2 = 0 THEN q ELSE q + 1

\* A variant of lines 190-197 that always takes the rule-based result.
ArbiterRuleOnly(ml_prediction, risk_analysis) ==
    [risk_score |-> risk_analysis.risk_score,
     risk_level |-> risk_analysis.risk_level,
     formula_weights |-> risk_analysis.weights]

\* Lines 190-197: the learned result when there is one, else the rule-based.
Arbiter(ml_prediction, risk_analysis) ==
    IF ml_prediction.status = "ok"
    THEN [risk_score |-> ml_prediction.risk_score,
          risk_level |-> ml_prediction.risk_level,
          formula_weights |-> ml_prediction.formula_weights]
    ELSE [risk_score |-> risk_analysis.risk_score,
          risk_level |-> risk_analysis.risk_level,
          formula_weights |-> risk_analysis.weights]

\* A variant of lines 176-182 without the try/except around predict_risk.
MlPredictionUncaught(s, crop, o) ==
    LET p == predict_risk(s, crop, o)
    IN  IF p.status = "ok" THEN p
        ELSE [status |-> "propagated", error |-> p.error, line |-> p.line]

\* Lines 176-182: ml_prediction, None when predict_risk raised (the record
\* keeps what was raised, which the handler only prints).
MlPrediction(s, crop, o) ==
    LET p == predict_risk(s, crop, o)
    IN  IF p.status = "ok" THEN p
        ELSE [status |-> "None", error |-> p.error, line |-> p.line]

\* A variant of lines 185-187 that scores the catalog's optimum instead of
\* the fetched observation.
RuleAnalysisOfOptimum(crop, o) ==
    LET c == CropDb.crops[crop]
    IN  calculate_risk_score(CropDb, crop,
            [temperature |-> c.optimal_temp, moisture |-> c.optimal_moisture,
             humidity |-> c.optimal_humidity, ndvi |-> c.optimal_ndvi,
             rainfall |-> c.optimal_rainfall])

\* A variant of lines 185-187 whose calculator keeps a cache keyed by the
\* crop alone: it answers with the analysis of one observation of the crop.
RuleAnalysisCachedByCrop(crop, o) ==
    calculate_risk_score(CropDb, crop,
        [temperature |-> 20, moisture |-> 80, humidity |-> 60, ndvi |-> 60,
         rainfall |-> 80])

\* Lines 185-187: the module-level RiskCalculator, on the request's inputs.
RuleAnalysis(crop, o) == calculate_risk_score(CropDb, crop, o)

\* A variant of line 161 that lets every crop name through.
CropIsValidUnchecked(crop_db, crop) == TRUE

\* Line 161: crop in crop_db['crops'].
CropIsValid(crop_db, crop) == crop \in DOMAIN crop_db.crops

\* What the handler calls after the validation, in the order of lines
\* 165-245 (a call that raises is the last one made).
HandlerCalls ==
    <<"fetch_all_data", "predict_risk", "calculate_risk_score",
      "generate_recommendations", "get_optimal_ranges",
      "compare_with_optimal", "save_risk_assessment",
      "save_environmental_data", "backup_data_to_cloud">>

\* Lines 200-202: the recommendations are generated from the rule-based
\* risk_analysis; the arbiter's result (final) is not passed.
Recommendations(crop, risk_analysis, final) ==
    generate_recommendations(CropDb, crop, risk_analysis,
                             risk_analysis.current_values)

\* assess_risk for the request's crop and the observation fetched for its
\* location, with the model object as it is: the handler's locals and its
\* JSON response (scores in thousandths after round(., 3)).
assess_risk(s, crop, o) ==
    IF ~CropIsValid(CropDb, crop)
    THEN [http |-> 400, error |-> "Invalid crop", calls |-> <<>>]
    ELSE
        LET ml_prediction == MlPrediction(s, crop, o)
        IN  IF ml_prediction.status = "propagated"
            THEN [http |-> 500, error |-> ml_prediction.error,
                  calls |-> SubSeq(HandlerCalls, 1, 2)]
            ELSE IF crop \notin DOMAIN CropDb.crops
            THEN [http |-> 500, error |-> "KeyError",
                  calls |-> SubSeq(HandlerCalls, 1, 3)]
            ELSE
            LET risk_analysis == RuleAnalysis(crop, o)
                final == Arbiter(ml_prediction, risk_analysis)
            IN  [http |-> 200,
                 calls |-> HandlerCalls,
                 ml_prediction |-> ml_prediction,
                 risk_analysis |-> risk_analysis,
                 risk_score |-> final.risk_score,
                 risk_level |-> final.risk_level,
                 formula_weights |-> final.formula_weights,
                 response |->
                    [risk_score |-> Round3(final.risk_score, SOne),
                     risk_level |-> final.risk_level,
                     formula_weights |-> final.formula_weights,
                     factor_risks |->
                        [k \in FactorSet |->
                            Round3(risk_analysis.factor_risks[k], FOne)],
                     weakest_factor |-> risk_analysis.weakest_factor,
                     recommendations |->
                        Recommendations(crop, risk_analysis, final),
                     comparison |->
                        compare_with_optimal(CropDb, crop,
                                             risk_analysis.current_values)]]

----------------------------------------------------------------------------
(* The calls, one action each                                              *)

Observation(t, m, h, v, r) ==
    [temperature |-> t, moisture |-> m, humidity |-> h, ndvi |-> v,
     rainfall |-> r]

\* Observations of the requests (degrees, hundredths, percent, hundredths,
\* hundredths).
RequestObservations ==
    {Observation(t, m, h, v, r) :
        t \in {20, 36}, m \in {80}, h \in {60}, v \in {60, 75}, r \in {80}}

\* Crops of the requests: two of the catalog and one it lacks.
RequestCrops == {"rice", "wheat", "quinoa"}

NoInput == [kind |-> "none"]
NotSaved == [known |-> FALSE]
NoCall == [op |-> "none"]
\* No train or load_model call in progress in a second thread; no
\* predict_risk call in progress in a third.
WriterIdle == [pc |-> "idle", calls |-> 0]
ReaderIdle == [pc |-> "idle"]

Init ==
    /\ self = NewCropRiskModel
    /\ file \in {NoFile, ShippedFile}
    /\ saved = NotSaved
    /\ inp = NoInput
    /\ last = NoCall
    /\ writer = WriterIdle
    /\ reader = ReaderIdle

CallTrain ==
    \E df \in DataFrames :
      \E nan_ok \in IF df.crops \subseteq CatalogCrops THEN {TRUE} ELSE BOOLEAN :
        LET r == train(self, df, nan_ok)
        IN  /\ self' = r.self
            /\ last' = [op |-> "train", status |-> r.status,
                        error |-> r.error, line |-> r.line,
                        crops |-> df.crops]
            /\ UNCHANGED <<file, saved, inp, writer, reader>>

\* A variant of predict_risk whose line 141 calls scaler.fit_transform: the
\* call refits the scaler on the one row it was given.
CallPredictRiskRefitting ==
    \E crop \in RequestCrops, o \in RequestObservations :
        /\ last' = [op |-> "predict_risk", crop |-> crop, obs |-> o,
                    result |-> predict_risk(self, crop, o)]
        /\ self' = IF predict_risk(self, crop, o).status = "ok"
                   THEN [self EXCEPT !.scaler.data = MaxData] ELSE self
        /\ UNCHANGED <<file, saved, inp, writer, reader>>

CallPredictRisk ==
    \E crop \in RequestCrops, o \in RequestObservations :
        /\ last' = [op |-> "predict_risk", crop |-> crop, obs |-> o,
                    result |-> predict_risk(self, crop, o)]
        /\ UNCHANGED <<self, file, saved, inp, writer, reader>>

CallSaveModel ==
    LET r == save_model(self, file)
    IN  /\ file' = r.file
        /\ last' = [op |-> "save_model", status |-> r.status,
                    error |-> r.error, line |-> r.line,
                    wrote |-> (r.file # file)]
        /\ saved' = IF r.status = "ok" THEN [known |-> TRUE, self |-> self]
                    ELSE saved
        /\ UNCHANGED <<self, inp, writer, reader>>

CallLoadModel ==
    LET r == load_model(self, file)
    IN  /\ self' = r.self
        /\ last' = [op |-> "load_model", status |-> r.status,
                    error |-> r.error, line |-> r.line,
                    changed |-> (r.self # self)]
        /\ UNCHANGED <<file, saved, inp, writer, reader>>

CallAssessRisk ==
    \E crop \in RequestCrops, o \in RequestObservations :
        /\ last' = [op |-> "assess_risk", crop |-> crop, obs |-> o,
                    result |-> assess_risk(self, crop, o)]
        /\ UNCHANGED <<self, file, saved, inp, writer, reader>>

Next ==
    \/ CallTrain
    \/ CallPredictRisk
    \/ CallSaveModel
    \/ CallLoadModel
    \/ CallAssessRisk

Spec == Init /\ [][Next]_vars

----------------------------------------------------------------------------
(* The rule engine alone: the inputs are drawn by the initial state, the   *)
(* one call applies the function to them.                                  *)

RuleObservations ==
    {Observation(t, m, h, v, r) :
        t \in {10, 20, 24, 31}, m \in {40, 60, 72, 95},
        h \in {50, 60, 66, 85}, v \in {30, 60, 70, 85},
        r \in {40, 80, 100, 130}}

\* Scores around the two thresholds, in score units.
ScoreInputs ==
    {0, (3 * SOne) \div 10 - 1, (3 * SOne) \div 10, (3 * SOne) \div 10 + 1,
     (6 * SOne) \div 10 - 1, (6 * SOne) \div 10, (6 * SOne) \div 10 + 1, SOne}

\* Observations for the recommendations: around rice's optima they give
\* risks of 0, exactly 0.3, between 0.3 and 1 inside the tolerance, and 1
\* beyond it on either side.
RecommendationObservations ==
    {Observation(t, m, h, v, r) :
        t \in {18, 25, 27, 31}, m \in {50, 72, 80, 98},
        h \in {77, 80, 84, 95}, v \in {45, 60, 64, 70, 90},
        r \in {102, 111, 120, 160}}

\* Largest value of one factor given to a factor risk function (degrees,
\* percent or hundredths).
MaxValue == 240

\* Category strings given to _get_category_weights: the four of the table
\* and three it lacks.
CategoryInputs == Categories \cup {"", "unknown", "High_Moisture"}

\* Importance vectors given to _create_risk_formula: 20 at the columns of a
\* set drawn from temperature, crop_encoded, crop_category_encoded,
\* temp_moisture, humidity_ndvi, temp_deviation and rainfall_deviation, 0
\* elsewhere; and 5 at every column.
ImportanceInputs ==
    {[i \in 1..Len(FeatureColumns) |-> IF i \in S THEN 20 ELSE 0] :
        S \in SUBSET {1, 6, 7, 8, 9, 11, 15}}
    \cup {[i \in 1..Len(FeatureColumns) |-> 5]}

RuleInputs ==
    {[kind |-> "observation", crop |-> c, obs |-> o] :
        c \in CatalogCrops, o \in RuleObservations}
    \cup {[kind |-> "score", score |-> x] : x \in ScoreInputs}
    \cup {[kind |-> "recommend", crop |-> c, obs |-> o] :
        c \in CatalogCrops, o \in RecommendationObservations}
    \cup {[kind |-> "factor", crop |-> c, factor |-> f, value |-> x] :
        c \in CatalogCrops, f \in FactorSet, x \in 0..MaxValue}
    \cup {[kind |-> "category", category |-> c] : c \in CategoryInputs}
    \cup {[kind |-> "importance", crop |-> c, feature_importance |-> x] :
        c \in {"rice"}, x \in ImportanceInputs}

InitRule ==
    /\ self = NewCropRiskModel
    /\ file = NoFile
    /\ saved = NotSaved
    /\ inp \in RuleInputs
    /\ last = NoCall
    /\ writer = WriterIdle
    /\ reader = ReaderIdle

CallCalculateRiskScore ==
    /\ inp.kind = "observation"
    /\ last = NoCall
    /\ last' = [op |-> "calculate_risk_score",
                result |-> calculate_risk_score(CropDb, inp.crop, inp.obs)]
    /\ UNCHANGED <<self, file, saved, inp, writer, reader>>

CallGetRiskLevel ==
    /\ inp.kind = "score"
    /\ last = NoCall
    /\ last' = [op |-> "_get_risk_level",
                RiskCalculator |-> RiskCalculator_get_risk_level(inp.score),
                CropRiskModel |-> CropRiskModel_get_risk_level(inp.score)]
    /\ UNCHANGED <<self, file, saved, inp, writer, reader>>

\* generate_recommendations, given the rule engine's analysis of the
\* observation as assess_risk gives it.
CallGenerateRecommendations ==
    /\ inp.kind = "recommend"
    /\ last = NoCall
    /\ LET risk_analysis == calculate_risk_score(CropDb, inp.crop, inp.obs)
       IN  last' = [op |-> "generate_recommendations",
                    risk_analysis |-> risk_analysis,
                    result |-> generate_recommendations(CropDb, inp.crop,
                                  risk_analysis, risk_analysis.current_values)]
    /\ UNCHANGED <<self, file, saved, inp, writer, reader>>

\* Lines 18-22 of calculate_risk_score: the risk function of one factor.
FactorRisk(factor, value, crop_data) ==
    CASE factor = "temperature" -> _calculate_temperature_risk(value, crop_data)
      [] factor = "moisture" -> _calculate_moisture_risk(value, crop_data)
      [] factor = "humidity" -> _calculate_humidity_risk(value, crop_data)
      [] factor = "ndvi" -> _calculate_ndvi_risk(value, crop_data)
      [] factor = "rainfall" -> _calculate_rainfall_risk(value, crop_data)

CallFactorRisk ==
    /\ inp.kind = "factor"
    /\ last = NoCall
    /\ last' = [op |-> "_calculate_risk", factor |-> inp.factor,
                value |-> inp.value,
                risk |-> FactorRisk(inp.factor, inp.value,
                                    CropDb.crops[inp.crop])]
    /\ UNCHANGED <<self, file, saved, inp, writer, reader>>

CallGetCategoryWeights ==
    /\ inp.kind = "category"
    /\ last = NoCall
    /\ last' = [op |-> "_get_category_weights",
                weights |-> _get_category_weights(inp.category)]
    /\ UNCHANGED <<self, file, saved, inp, writer, reader>>

\* _create_risk_formula as predict_risk calls it, with the columns a
\* training call recorded.
CallCreateRiskFormula ==
    /\ inp.kind = "importance"
    /\ last = NoCall
    /\ last' = [op |-> "_create_risk_formula",
                formula_weights |->
                    _create_risk_formula(inp.crop, inp.feature_importance,
                                         FeatureColumns)]
    /\ UNCHANGED <<self, file, saved, inp, writer, reader>>

NextRule ==
    \/ CallCalculateRiskScore
    \/ CallGetRiskLevel
    \/ CallGenerateRecommendations
    \/ CallFactorRisk
    \/ CallGetCategoryWeights
    \/ CallCreateRiskFormula

SpecRule == InitRule /\ [][NextRule]_vars

----------------------------------------------------------------------------
(* risk_calculator.py: RiskCalculator.__init__ on catalog files other than *)
(* the shipped one, then calculate_risk_score on what was loaded.  The     *)
(* files tried differ from the shipped catalog in rice's record.           *)

Without(rec, field) == [k \in DOMAIN rec \ {field} |-> rec[k]]

WithRice(rice) == [crops |-> [CropDb.crops EXCEPT !.rice = rice]]

CatalogFiles ==
    {CropDb,
     WithRice([CropDb.crops.rice EXCEPT !.temp_tolerance = 0]),
     WithRice([CropDb.crops.rice EXCEPT !.temp_tolerance = 0 - 5]),
     WithRice(Without(CropDb.crops.rice, "temp_tolerance")),
     WithRice(Without(CropDb.crops.rice, "category"))}

\* __init__, lines 8-10: json.load of the file; whatever it holds becomes
\* self.crop_db.
RiskCalculatorInit(catalog) == [status |-> "ok", crop_db |-> catalog]

\* calculate_risk_score on a loaded catalog whose records may lack the
\* temperature tolerance or the category, or hold a zero tolerance: the
\* exception the first failing statement raises, else the analysis.
calculate_risk_score_or_raise(crop_db, crop, o) ==
    IF crop \notin DOMAIN crop_db.crops THEN Raise("KeyError", 15)
    ELSE LET crop_data == crop_db.crops[crop]
         IN  IF "temp_tolerance" \notin DOMAIN crop_data
             THEN Raise("KeyError", 67)
             ELSE IF crop_data.temp_tolerance = 0
             THEN Raise("ZeroDivisionError", 70)
             ELSE IF "category" \notin DOMAIN crop_data
             THEN Raise("KeyError", 25)
             ELSE [status |-> "ok",
                   analysis |-> calculate_risk_score(crop_db, crop, o)]

CatalogInputs ==
    {[kind |-> "catalog", catalog |-> f, crop |-> c, obs |-> o] :
        f \in CatalogFiles, c \in {"rice", "wheat", "maize"},
        o \in RequestObservations}

InitCatalog ==
    /\ self = NewCropRiskModel
    /\ file = NoFile
    /\ saved = NotSaved
    /\ inp \in CatalogInputs
    /\ last = NoCall
    /\ writer = WriterIdle
    /\ reader = ReaderIdle

CallRiskCalculatorInit ==
    /\ last = NoCall
    /\ LET r == RiskCalculatorInit(inp.catalog)
       IN  last' = [op |-> "RiskCalculator", status |-> r.status,
                    crop_db |-> r.crop_db]
    /\ UNCHANGED <<self, file, saved, inp, writer, reader>>

CallCalculateOnLoaded ==
    /\ last.op = "RiskCalculator"
    /\ last.status = "ok"
    /\ last' = [op |-> "calculate_risk_score", crop_db |-> last.crop_db,
                result |-> calculate_risk_score_or_raise(last.crop_db,
                                                         inp.crop, inp.obs)]
    /\ UNCHANGED <<self, file, saved, inp, writer, reader>>

NextCatalog ==
    \/ CallRiskCalculatorInit
    \/ CallCalculateOnLoaded

SpecCatalog == InitCatalog /\ [][NextCatalog]_vars

----------------------------------------------------------------------------
(* model.py has no lock: a predict_risk call running in one thread while   *)
(* train or load_model runs in another on the same object.  Each action    *)
(* is one statement that reads or writes an attribute of the object.       *)

\* Calls of train and load_model made by the writing thread.
MaxWriterCalls == 2

\* The four attributes that make a bundle.
Bundle(s) ==
    [model |-> s.model, scaler |-> s.scaler, crop_encoder |-> s.crop_encoder,
     feature_columns |-> s.feature_columns]

ConcDataFrames ==
    {df \in DataFrames :
        df.id = 1 /\ df.crops \in {{}, {"rice", "quinoa"}, CatalogCrops}}

ConcCrops == {"rice", "quinoa"}
ConcObservations == {Observation(20, 80, 60, 60, 80)}

InitConc ==
    /\ self = NewCropRiskModel
    /\ file \in {NoFile, ShippedFile}
    /\ saved = NotSaved
    /\ inp = NoInput
    /\ last = NoCall
    /\ writer = WriterIdle
    /\ reader = ReaderIdle

\* A call of the writing thread ends (it returned or raised): the reader in
\* progress has now overlapped with the object as this call leaves it.
WriterReturns(s, status, error, line) ==
    /\ writer' = [pc |-> "idle", calls |-> writer.calls, status |-> status,
                  error |-> error, line |-> line]
    /\ reader' = IF reader.pc \in {"idle", "done"} THEN reader
                 ELSE [reader EXCEPT !.window = @ \cup {Bundle(s)}]

WriterGoes(pc) ==
    /\ writer' = [writer EXCEPT !.pc = pc]
    /\ UNCHANGED reader

\* train(df) is entered.
TrainStart ==
    /\ writer.pc = "idle"
    /\ writer.calls < MaxWriterCalls
    /\ \E df \in ConcDataFrames :
         \E nan_ok \in IF df.crops \subseteq CatalogCrops THEN {TRUE}
                       ELSE BOOLEAN :
            writer' = [pc |-> "l39", op |-> "train", df |-> df,
                       nan_ok |-> nan_ok, before |-> Bundle(self),
                       calls |-> writer.calls + 1]
    /\ UNCHANGED <<self, file, saved, inp, last, reader>>

\* Line 39.
TrainFitCrops ==
    /\ writer.pc = "l39"
    /\ self' = FitCropEncoder(self, writer.df)
    /\ WriterGoes("l46")
    /\ UNCHANGED <<file, saved, inp, last>>

\* Lines 42-46.
TrainFitCategories ==
    /\ writer.pc = "l46"
    /\ LET cats == CropCategories(self, writer.df)
       IN  IF "nan" \in cats /\ cats # {"nan"} /\ ~writer.nan_ok
           THEN /\ WriterReturns(self, "raised", "TypeError", 46)
                /\ UNCHANGED self
           ELSE /\ self' = FitCategoryEncoder(self, writer.df)
                /\ WriterGoes("l54")
    /\ UNCHANGED <<file, saved, inp, last>>

\* Lines 49-62.
TrainSetFeatureColumns ==
    /\ writer.pc = "l54"
    /\ IF ~(writer.df.crops \subseteq DOMAIN Catalog(self.crop_db).crops)
       THEN /\ WriterReturns(self, "raised", "KeyError", 55)
            /\ UNCHANGED self
       ELSE /\ self' = SetFeatureColumns(self, writer.df)
            /\ WriterGoes("l74")
    /\ UNCHANGED <<file, saved, inp, last>>

\* Lines 74-79.
TrainFitScaler ==
    /\ writer.pc = "l74"
    /\ IF NTrain(writer.df.n) = 0
       THEN /\ WriterReturns(self, "raised", "ValueError", 74)
            /\ UNCHANGED self
       ELSE /\ self' = FitScaler(self, writer.df)
            /\ WriterGoes("l83")
    /\ UNCHANGED <<file, saved, inp, last>>

\* Line 83.
TrainFitModel ==
    /\ writer.pc = "l83"
    /\ self' = FitModel(self, writer.df)
    /\ WriterGoes("l95")
    /\ UNCHANGED <<file, saved, inp, last>>

\* Lines 86-117.
TrainFinish ==
    /\ writer.pc = "l95"
    /\ IF NTrain(writer.df.n) < CvFolds
       THEN /\ WriterReturns(self, "raised", "ValueError", 95)
            /\ UNCHANGED self
       ELSE /\ self' = SetTrained(self)
            /\ WriterReturns(SetTrained(self), "ok", "none", 117)
    /\ UNCHANGED <<file, saved, inp, last>>

\* The attributes load_model assigns, in the order of lines 236-241.
LoadOrder == <<"model", "scaler", "crop_encoder", "feature_columns",
               "crop_db", "is_trained">>

\* Lines 232-235 of load_model.
LoadStart ==
    /\ writer.pc = "idle"
    /\ writer.calls < MaxWriterCalls
    /\ IF ~file.exists
       THEN writer' = [pc |-> "idle", calls |-> writer.calls + 1,
                       status |-> "raised", error |-> "FileNotFoundError",
                       line |-> 233]
       ELSE writer' = [pc |-> "l236", op |-> "load_model",
                       model_data |-> file.model_data, i |-> 1,
                       before |-> Bundle(self), calls |-> writer.calls + 1]
    /\ UNCHANGED <<self, file, saved, inp, last, reader>>

\* One of the assignments of lines 236-241.
LoadAssign ==
    /\ writer.pc = "l236"
    /\ LET attr == LoadOrder[writer.i]
           s == [self EXCEPT
                    ![attr] = IF attr = "is_trained" THEN TRUE
                              ELSE writer.model_data[attr]]
       IN  /\ self' = s
           /\ IF writer.i < Len(LoadOrder)
              THEN /\ writer' = [writer EXCEPT !.i = @ + 1]
                   /\ UNCHANGED reader
              ELSE WriterReturns(s, "ok", "none", 243)
    /\ UNCHANGED <<file, saved, inp, last>>

\* The bundle in service when predict_risk is entered: the object's, or,
\* while a train or load_model call is under way, the one that call found.
BundleInService ==
    IF writer.pc = "idle" THEN Bundle(self) ELSE writer.before

\* predict_risk(crop, ...) is entered.
PredictStart ==
    /\ reader.pc = "idle"
    /\ \E crop \in ConcCrops, o \in ConcObservations :
          reader' = [pc |-> "l122", crop |-> crop, obs |-> o, reads |-> <<>>,
                     window |-> {BundleInService}]
    /\ UNCHANGED <<self, file, saved, inp, last, writer>>

ReaderRaises(e, l) ==
    reader' = [pc |-> "done", crop |-> reader.crop, obs |-> reader.obs,
               reads |-> reader.reads, window |-> reader.window,
               result |-> Raise(e, l)]

\* The reader used attribute attr of the object and found value there.
ReaderRead(attr, value) == Append(reader.reads, [attr |-> attr, value |-> value])

\* Lines 122-123.
PredictCheckTrained ==
    /\ reader.pc = "l122"
    /\ IF ~self.is_trained THEN ReaderRaises("ValueError", 123)
       ELSE reader' = [reader EXCEPT !.pc = "l128"]
    /\ UNCHANGED <<self, file, saved, inp, last, writer>>

\* Line 128: self.crop_encoder.transform([crop]).
PredictEncodeCrop ==
    /\ reader.pc = "l128"
    /\ LET enc == self.crop_encoder
       IN  IF ~enc.fitted THEN ReaderRaises("NotFittedError", 128)
           ELSE IF reader.crop \notin enc.classes
           THEN ReaderRaises("ValueError", 128)
           ELSE reader' = [pc |-> "l129", crop |-> reader.crop,
                           obs |-> reader.obs,
                           reads |-> ReaderRead("crop_encoder", enc),
                           window |-> reader.window,
                           crop_code |-> LabelCode(enc, reader.crop)]
    /\ UNCHANGED <<self, file, saved, inp, last, writer>>

\* Lines 129-138: the category code and the rest of the feature vector.
PredictEncodeCategory ==
    /\ reader.pc = "l129"
    /\ LET enc == self.crop_encoder
           crops == Catalog(self.crop_db).crops
       IN  IF reader.crop \notin DOMAIN crops
           THEN ReaderRaises("KeyError", 129)
           ELSE IF ~enc.fitted THEN ReaderRaises("NotFittedError", 129)
           ELSE IF crops[reader.crop].category \notin enc.classes
           THEN ReaderRaises("ValueError", 129)
           ELSE reader' =
                  [pc |-> "l141", crop |-> reader.crop, obs |-> reader.obs,
                   reads |-> ReaderRead("crop_encoder", enc),
                   window |-> reader.window,
                   features |->
                      FeatureVectorOf(crops[reader.crop], reader.obs,
                          reader.crop_code,
                          LabelCode(enc, crops[reader.crop].category))]
    /\ UNCHANGED <<self, file, saved, inp, last, writer>>

\* Line 141: self.scaler.transform(features).
PredictScale ==
    /\ reader.pc = "l141"
    /\ LET scaler == self.scaler
       IN  IF ~scaler.fitted THEN ReaderRaises("NotFittedError", 141)
           ELSE IF scaler.n_features # Len(reader.features)
           THEN ReaderRaises("ValueError", 141)
           ELSE reader' =
                  [pc |-> "l144", crop |-> reader.crop, obs |-> reader.obs,
                   reads |-> ReaderRead("scaler", scaler),
                   window |-> reader.window,
                   features_scaled |-> ScalerTransform(scaler, reader.features)]
    /\ UNCHANGED <<self, file, saved, inp, last, writer>>

\* Lines 144-145: self.model.predict(features_scaled), clamped.
PredictScore ==
    /\ reader.pc = "l144"
    /\ LET model == self.model
       IN  IF ~model.fitted THEN ReaderRaises("NotFittedError", 144)
           ELSE IF model.n_features # Len(reader.features_scaled)
           THEN ReaderRaises("ValueError", 144)
           ELSE reader' =
                  [pc |-> "l148", crop |-> reader.crop, obs |-> reader.obs,
                   reads |-> ReaderRead("model", model),
                   window |-> reader.window,
                   risk_score |->
                      ClampScore(ForestPredict(model, reader.features_scaled))]
    /\ UNCHANGED <<self, file, saved, inp, last, writer>>

\* Line 148: self.model.feature_importances_.
PredictImportances ==
    /\ reader.pc = "l148"
    /\ LET model == self.model
       IN  IF ~model.fitted THEN ReaderRaises("NotFittedError", 148)
           ELSE reader' =
                  [pc |-> "l149", crop |-> reader.crop, obs |-> reader.obs,
                   reads |-> ReaderRead("model", model),
                   window |-> reader.window,
                   risk_score |-> reader.risk_score,
                   feature_importance |-> FeatureImportances(model)]
    /\ UNCHANGED <<self, file, saved, inp, last, writer>>

\* Lines 149-159: self.feature_columns, the formula, the returned dict.
PredictReturn ==
    /\ reader.pc = "l149"
    /\ LET feature_names == self.feature_columns
           feature_importance == reader.feature_importance
       IN  IF feature_names = <<>> THEN ReaderRaises("TypeError", 152)
           ELSE IF Len(feature_names) > Len(feature_importance)
           THEN ReaderRaises("IndexError", 152)
           ELSE reader' =
                  [pc |-> "done", crop |-> reader.crop, obs |-> reader.obs,
                   reads |-> ReaderRead("feature_columns", feature_names),
                   window |-> reader.window,
                   result |->
                     [status |-> "ok",
                      risk_score |-> reader.risk_score,
                      risk_level |->
                         CropRiskModel_get_risk_level(reader.risk_score),
                      formula_weights |->
                         _create_risk_formula(reader.crop, feature_importance,
                                              feature_names),
                      feature_importance |->
                         [i \in 1..Len(feature_names) |->
                             feature_importance[i]]]]
    /\ UNCHANGED <<self, file, saved, inp, last, writer>>

NextConc ==
    \/ TrainStart
    \/ TrainFitCrops
    \/ TrainFitCategories
    \/ TrainSetFeatureColumns
    \/ TrainFitScaler
    \/ TrainFitModel
    \/ TrainFinish
    \/ LoadStart
    \/ LoadAssign
    \/ PredictStart
    \/ PredictCheckTrained
    \/ PredictEncodeCrop
    \/ PredictEncodeCategory
    \/ PredictScale
    \/ PredictScore
    \/ PredictImportances
    \/ PredictReturn

SpecConc == InitConc /\ [][NextConc]_vars

----------------------------------------------------------------------------
(* Claims                                                                  *)

InUnit(x, one) == 0 <= x /\ x <= one

\* C1: every assessment's risk_score and each of its five factor risks lie in
\* [0, 1], whether the headline score is the rule engine's or the learned
\* model's clamped prediction; so does the score predict_risk returns.
C1_ScoresInUnitInterval ==
    /\ (last.op = "assess_risk" /\ last.result.http = 200) =>
          /\ InUnit(last.result.risk_score, SOne)
          /\ InUnit(last.result.risk_analysis.risk_score, SOne)
          /\ InUnit(last.result.response.risk_score, 1000)
          /\ \A f \in FactorSet :
                /\ InUnit(last.result.risk_analysis.factor_risks[f], FOne)
                /\ InUnit(last.result.response.factor_risks[f], 1000)
    /\ (last.op = "predict_risk" /\ last.result.status = "ok") =>
          InUnit(last.result.risk_score, SOne)

\* An assessment whose headline score is a learned prediction that had to be
\* clamped, for a temperature beyond twice the tolerance.
C1_Witness ==
    /\ last.op = "assess_risk"
    /\ last.result.http = 200
    /\ last.result.ml_prediction.status = "ok"
    /\ ~InUnit(ForestPredict(self.model,
                  ScalerTransform(self.scaler,
                      FeatureVector(self, last.crop, last.obs))), SOne)
    /\ last.obs.temperature >
          CropDb.crops[last.crop].optimal_temp
          + 2 * CropDb.crops[last.crop].temp_tolerance
    /\ last.result.risk_analysis.factor_risks.temperature = FOne

LevelRank(level) ==
    CASE level = "Low Risk" -> 1
      [] level = "Medium Risk" -> 2
      [] level = "High Risk" -> 3

\* C2: risk_level is monotone in risk_score with thresholds exactly at 0.3
\* and 0.6 (0.3 is Medium, 0.6 is High), and the two _get_risk_level methods
\* agree on every score.
C2_RiskLevelThresholds ==
    (last.op = "_get_risk_level") =>
        /\ last.RiskCalculator = last.CropRiskModel
        /\ (10 * inp.score < 3 * SOne) => last.RiskCalculator = "Low Risk"
        /\ (3 * SOne <= 10 * inp.score /\ 10 * inp.score < 6 * SOne) =>
              last.RiskCalculator = "Medium Risk"
        /\ (10 * inp.score >= 6 * SOne) => last.RiskCalculator = "High Risk"
        /\ \A x \in ScoreInputs :
              (x <= inp.score) =>
                 /\ LevelRank(RiskCalculator_get_risk_level(x))
                       <= LevelRank(last.RiskCalculator)
                 /\ LevelRank(CropRiskModel_get_risk_level(x))
                       <= LevelRank(last.CropRiskModel)

\* The score 0.6 itself has been classified, as High.
C2_Witness ==
    /\ last.op = "_get_risk_level"
    /\ 10 * inp.score = 6 * SOne
    /\ last.RiskCalculator = "High Risk"
    /\ last.CropRiskModel = "High Risk"

FactorIndex(f) == CHOOSE i \in 1..Len(Factors) : Factors[i] = f

\* C3: weakest_factor has the maximal factor risk, and among the factors
\* that tie for the maximum it is the earliest in the order temperature,
\* moisture, humidity, ndvi, rainfall.
C3_WeakestFactorIsFirstArgmax ==
    (last.op = "calculate_risk_score") =>
        LET fr == last.result.factor_risks
            w == last.result.weakest_factor
        IN  /\ w \in FactorSet
            /\ \A f \in FactorSet : fr[f] <= fr[w]
            /\ \A f \in FactorSet :
                  (FactorIndex(f) < FactorIndex(w)) => fr[f] < fr[w]

\* Moisture and rainfall tie for the maximum, above temperature, humidity
\* and ndvi, and moisture is returned.
C3_Witness ==
    /\ last.op = "calculate_risk_score"
    /\ last.result.weakest_factor = "moisture"
    /\ last.result.factor_risks.rainfall = last.result.factor_risks.moisture
    /\ last.result.factor_risks.temperature < last.result.factor_risks.moisture
    /\ last.result.factor_risks.humidity < last.result.factor_risks.moisture
    /\ last.result.factor_risks.ndvi < last.result.factor_risks.moisture

\* C4: when predict_risk raises, whatever it raises, assess_risk still
\* answers 200 and its risk_score, risk_level and weights are exactly those
\* of calculate_risk_score for the same crop and observation.
C4_FallbackOnPredictFailure ==
    (/\ last.op = "assess_risk"
     /\ last.crop \in CatalogCrops
     /\ predict_risk(self, last.crop, last.obs).status # "ok") =>
        LET rule == calculate_risk_score(CropDb, last.crop, last.obs)
        IN  /\ last.result.http = 200
            /\ last.result.risk_score = rule.risk_score
            /\ last.result.risk_level = rule.risk_level
            /\ last.result.formula_weights = rule.weights
            /\ last.result.response.risk_level = rule.risk_level
            /\ last.result.response.formula_weights = rule.weights
            /\ last.result.response.risk_score = Round3(rule.risk_score, SOne)

\* An assessment on a trained model whose encoder does not know the crop.
C4_Witness ==
    /\ last.op = "assess_risk"
    /\ last.result.http = 200
    /\ self.is_trained
    /\ predict_risk(self, last.crop, last.obs).status = "raised"
    /\ predict_risk(self, last.crop, last.obs).line = 128
    /\ last.result.risk_level # "Low Risk"

\* C5: the final risk_score, risk_level and weights are the learned result's
\* when predict_risk succeeded, and the rule-based ones when it did not.
C5_ArbiterPrefersLearned ==
    (last.op = "assess_risk" /\ last.result.http = 200) =>
        LET p == predict_risk(self, last.crop, last.obs)
            rule == calculate_risk_score(CropDb, last.crop, last.obs)
        IN  IF p.status = "ok"
            THEN /\ last.result.risk_score = p.risk_score
                 /\ last.result.risk_level = p.risk_level
                 /\ last.result.formula_weights = p.formula_weights
                 /\ last.result.response.risk_level = p.risk_level
                 /\ last.result.response.formula_weights = p.formula_weights
                 /\ last.result.response.risk_score = Round3(p.risk_score, SOne)
            ELSE /\ last.result.risk_score = rule.risk_score
                 /\ last.result.risk_level = rule.risk_level
                 /\ last.result.formula_weights = rule.weights

\* A learned result that differs from the rule-based one in score, level and
\* weights has been reported.
C5_Witness ==
    /\ last.op = "assess_risk"
    /\ last.result.http = 200
    /\ last.result.ml_prediction.status = "ok"
    /\ last.result.risk_score # last.result.risk_analysis.risk_score
    /\ last.result.risk_level # last.result.risk_analysis.risk_level
    /\ last.result.formula_weights # last.result.risk_analysis.weights
    /\ last.result.risk_score = last.result.ml_prediction.risk_score

\* C6: in every assessment, learned prediction or not, the rule engine is
\* run on the request's crop and observation, and the reported factor_risks
\* (rounded to three decimals by the response), weakest_factor and
\* comparison with the optimal ranges are its outputs for them.
C6_ExplainabilityFromRule ==
    (last.op = "assess_risk" /\ last.result.http = 200) =>
        LET rule == calculate_risk_score(CropDb, last.crop, last.obs)
        IN  /\ last.result.risk_analysis = rule
            /\ rule.current_values = last.obs
            /\ last.result.response.weakest_factor = rule.weakest_factor
            /\ \A f \in FactorSet :
                  last.result.response.factor_risks[f]
                     = Round3(rule.factor_risks[f], FOne)
            /\ last.result.response.comparison
                  = compare_with_optimal(CropDb, last.crop, last.obs)

\* The learned prediction succeeded and the breakdown reported is the rule
\* engine's, with a factor out of range.
C6_Witness ==
    /\ last.op = "assess_risk"
    /\ last.result.http = 200
    /\ last.result.ml_prediction.status = "ok"
    /\ last.result.response.weakest_factor = "temperature"
    /\ last.result.response.factor_risks.temperature = 1000
    /\ ~last.result.response.comparison.temperature.within_range

SameResults(s1, s2) ==
    \A crop \in RequestCrops, o \in RequestObservations :
        predict_risk(s1, crop, o) = predict_risk(s2, crop, o)

SameBundle(s1, s2) ==
    /\ s1.model = s2.model
    /\ s1.scaler = s2.scaler
    /\ s1.crop_encoder = s2.crop_encoder
    /\ s1.feature_columns = s2.feature_columns

\* C7: a call of train that raises, on a model that holds a trained bundle,
\* leaves the regression model, scaler, encoder and feature column list as
\* they were, and predict_risk answers as before.
C7_FailedTrainKeepsBundle ==
    [][(self.is_trained /\ last'.op = "train" /\ last'.status = "raised") =>
          (SameBundle(self', self) /\ SameResults(self', self))]_vars

\* C8: a predict_risk call that overlaps a train or load_model call on the
\* same object reads the regression model, scaler, encoder and feature
\* columns of one bundle: every attribute value it used is that of the
\* bundle in service when it was entered, or every one is that of the
\* bundle a call of the other thread left while it ran.
C8_PredictionReadsOneBundle ==
    reader.pc = "done" =>
        \E b \in reader.window :
            \A i \in 1..Len(reader.reads) :
                b[reader.reads[i].attr] = reader.reads[i].value


\* C9: after load_model has read the file a save_model wrote, the regression
\* model, scaler, encoder and feature column order are those that were
\* saved, and predict_risk gives for every input what it gave at the save
\* (the same result, or the same failure).
C9_SaveLoadRoundTrip ==
    (last.op = "load_model" /\ last.status = "ok" /\ saved.known) =>
        /\ SameBundle(self, saved.self)
        /\ SameResults(self, saved.self)

\* A load that changed the model object back to a saved bundle under which
\* some prediction succeeds.
C9_Witness ==
    /\ last.op = "load_model"
    /\ last.status = "ok"
    /\ last.changed
    /\ saved.known
    /\ \E crop \in RequestCrops, o \in RequestObservations :
          predict_risk(self, crop, o).status = "ok"

\* C10: on a model for which no train or load_model has completed,
\* predict_risk raises the must-be-trained error at its first statement,
\* before the feature vector, returns nothing and changes nothing;
\* save_model raises likewise and writes nothing.
C10_UntrainedCallsFail ==
    [][(~self.is_trained) =>
          /\ (last'.op = "predict_risk") =>
                /\ last'.result = Raise("ValueError", 123)
                /\ self' = self
                /\ file' = file
          /\ (last'.op = "save_model") =>
                /\ last'.status = "raised"
                /\ last'.error = "ValueError"
                /\ last'.line = 215
                /\ ~last'.wrote
                /\ file' = file
                /\ self' = self]_vars

\* predict_risk has refused on a model that a failed train left untrained
\* with its encoder, scaler and forest already fitted.
C10_Witness ==
    /\ last.op = "predict_risk"
    /\ ~self.is_trained
    /\ self.crop_encoder.fitted
    /\ self.model.fitted
    /\ last.result = Raise("ValueError", 123)

\* C11: after a training call that succeeded, predict_risk puts in the
\* feature vector of every crop of the training samples the crop code and
\* the category code that the training call assigned, and fails for a crop
\* that was not among the training samples.
C11_CodesFixedAtTraining ==
    (last.op = "train" /\ last.status = "ok") =>
        /\ \A c \in last.crops :
              LET at_inference == InferenceCodes(self, c)
                  at_training == TrainingCodes(self, last.crops, c)
              IN  /\ at_inference.status = "ok"
                  /\ at_inference.crop_code = at_training.crop_code
                  /\ at_inference.category_code = at_training.category_code
        /\ \A c \in RequestCrops \ last.crops, o \in RequestObservations :
              predict_risk(self, c, o).status = "raised"

C13_PredictLeavesBundle ==
    [][(last'.op = "predict_risk") => self' = self]_vars

C13_Witness ==
    /\ last.op = "predict_risk"
    /\ last.result.status = "ok"
    /\ self.is_trained
    /\ self.scaler.fitted

\* C14: the list generate_recommendations returns has one entry for each
\* factor whose risk is strictly above 0.3, none for any other factor, and
\* ends with the general entry.
C14_RecommendationCount ==
    last.op = "generate_recommendations" =>
        LET recs == last.result
            flagged == {f \in FactorSet :
                            last.risk_analysis.factor_risks[f] * 10 > 3 * FOne}
        IN  /\ Len(recs) = Cardinality(flagged) + 1
            /\ recs[Len(recs)].factor = "general"
            /\ \A i \in 1..Len(recs) - 1 : recs[i].factor \in flagged
            /\ \A f \in flagged : \E i \in 1..Len(recs) - 1 : recs[i].factor = f

\* Two factors at exactly 0.3 get no entry, two others do, and the general
\* entry comes last with a priority above the entry before it.
C14_Witness ==
    /\ last.op = "generate_recommendations"
    /\ last.risk_analysis.factor_risks.humidity * 10 = 3 * FOne
    /\ last.risk_analysis.factor_risks.ndvi * 10 = 3 * FOne
    /\ Len(last.result) = 3
    /\ \A i \in 1..3 : last.result[i].factor \notin {"humidity", "ndvi"}
    /\ last.result[3].factor = "general"
    /\ last.result[3].priority > last.result[2].priority

\* C15: every entry but the last has its factor's risk as priority, these
\* entries are in non-increasing order of priority, and the general entry
\* is last whatever its priority.
C15_SortedByPriority ==
    last.op = "generate_recommendations" =>
        LET recs == last.result
            n == Len(recs) - 1
        IN  /\ \A i \in 1..n :
                  /\ recs[i].factor \in FactorSet
                  /\ recs[i].priority =
                        last.risk_analysis.factor_risks[recs[i].factor]
            /\ \A i \in 1..n, j \in 1..n :
                  i < j => recs[i].priority >= recs[j].priority
            /\ recs[n + 1].factor = "general"

\* The sort moved later factors in front of earlier ones, kept two entries
\* of equal priority in the order of the factors, and the general entry
\* stands after an entry of lower priority.
C15_Witness ==
    /\ last.op = "generate_recommendations"
    /\ Len(last.result) = 5
    /\ last.result[1].factor = "rainfall"
    /\ last.result[2].factor = "moisture"
    /\ last.result[3].factor = "temperature"
    /\ last.result[4].factor = "humidity"
    /\ last.result[1].priority > last.result[2].priority
    /\ last.result[3].priority = last.result[4].priority
    /\ last.result[5].priority > last.result[4].priority

\* C16: exactly one entry is the general one; its priority is 1.0, 0.5 or
\* 0.2 and its level High, Medium or Low as the risk_level of the analysis
\* it was given is High Risk, Medium Risk or Low Risk.
C16_GeneralEntry ==
    last.op = "generate_recommendations" =>
        LET recs == last.result
            general == {i \in 1..Len(recs) : recs[i].factor = "general"}
            g == recs[Len(recs)]
            level == last.risk_analysis.risk_level
        IN  /\ general = {Len(recs)}
            /\ level = "High Risk" =>
                  (g.priority = FOne /\ g.risk_level = "High")
            /\ level = "Medium Risk" =>
                  (g.priority * 2 = FOne /\ g.risk_level = "Medium")
            /\ level = "Low Risk" =>
                  (g.priority * 10 = 2 * FOne /\ g.risk_level = "Low")
            /\ level \in {"High Risk", "Medium Risk", "Low Risk"}

C16_Witness ==
    /\ last.op = "generate_recommendations"
    /\ last.risk_analysis.risk_level = "Medium Risk"
    /\ last.result[Len(last.result)].risk_level = "Medium"
    /\ last.result[Len(last.result)].priority * 2 = FOne
    /\ Len(last.result) >= 3

\* The level a general entry carries for an overall risk_level.
GeneralLevelOf(risk_level) ==
    CASE risk_level = "High Risk" -> "High"
      [] risk_level = "Medium Risk" -> "Medium"
      [] OTHER -> "Low"

\* C17: in every assessment the general recommendation's level agrees with
\* the risk_level reported in the same response, also when that level came
\* from the learned model and differs from the rule-based one.
C17_GeneralFollowsArbiter ==
    (last.op = "assess_risk" /\ last.result.http = 200) =>
        LET recs == last.result.response.recommendations
        IN  recs[Len(recs)].risk_level =
                GeneralLevelOf(last.result.response.risk_level)

\* The branch the code's comparisons give a per-factor entry.
BranchByTolerance(e, tolerance) ==
    IF e.current_value > e.optimal_value + tolerance THEN "too_high"
    ELSE IF e.current_value < e.optimal_value - tolerance THEN "too_low"
    ELSE "in_range"

\* C18 as stated: the entries of temperature, moisture, humidity and
\* rainfall are chosen by the side of the tolerance band the current value
\* is on, and a flagged NDVI below the optimal value always gets the
\* too-low entry 'Poor Vegetation Health', an NDVI at or above it never.
C18_NdviLowBelowOptimal ==
    last.op = "generate_recommendations" =>
        \A i \in 1..Len(last.result) - 1 :
            LET e == last.result[i]
                tolerance == ToleranceOf(CropDb.crops[inp.crop], e.factor)
            IN  IF e.factor = "ndvi"
                THEN (e.current_value < e.optimal_value) =
                        (e.issue = "Poor Vegetation Health (Low NDVI)")
                ELSE e.branch = BranchByTolerance(e, tolerance)

\* C18, amended: the entries of temperature, moisture, humidity and
\* rainfall are chosen by the side of the tolerance band the current value
\* is on; the NDVI entry is the too-low 'Poor Vegetation Health' one
\* exactly when the NDVI is below optimal - tolerance, and otherwise
\* 'Good Vegetation Health', also for a flagged NDVI that is below the
\* optimal value but within the tolerance; an NDVI above the optimal value
\* is never given a too-high entry.
C18_DirectionByTolerance ==
    last.op = "generate_recommendations" =>
        \A i \in 1..Len(last.result) - 1 :
            LET e == last.result[i]
                tolerance == ToleranceOf(CropDb.crops[inp.crop], e.factor)
            IN  IF e.factor = "ndvi"
                THEN /\ (e.current_value < e.optimal_value - tolerance) =
                            (e.issue = "Poor Vegetation Health (Low NDVI)")
                     /\ (e.current_value >= e.optimal_value - tolerance) =
                            (e.issue = "Good Vegetation Health")
                     /\ e.branch # "too_high"
                ELSE e.branch = BranchByTolerance(e, tolerance)

\* A flagged NDVI below the optimal value and within the tolerance gets the
\* 'Good Vegetation Health' entry, next to a too-high and a too-low entry of
\* other factors.
C18_Witness ==
    /\ last.op = "generate_recommendations"
    /\ \E i \in 1..Len(last.result) - 1 :
          /\ last.result[i].factor = "ndvi"
          /\ last.result[i].current_value < last.result[i].optimal_value
          /\ last.result[i].priority * 10 > 3 * FOne
          /\ last.result[i].issue = "Good Vegetation Health"
    /\ \E i \in 1..Len(last.result) - 1 :
          /\ last.result[i].factor = "temperature"
          /\ last.result[i].issue = "High Temperature Stress"
    /\ \E i \in 1..Len(last.result) - 1 :
          /\ last.result[i].factor = "moisture"
          /\ last.result[i].issue = "Soil Moisture Deficit"

RequiredFields ==
    {"category", "optimal_temp", "temp_tolerance", "optimal_moisture",
     "moisture_tolerance", "optimal_humidity", "humidity_tolerance",
     "optimal_ndvi", "ndvi_tolerance", "optimal_rainfall",
     "rainfall_tolerance"}

ToleranceFields ==
    {"temp_tolerance", "moisture_tolerance", "humidity_tolerance",
     "ndvi_tolerance", "rainfall_tolerance"}

ValidCatalog(crop_db) ==
    \A c \in DOMAIN crop_db.crops :
        /\ RequiredFields \subseteq DOMAIN crop_db.crops[c]
        /\ \A f \in ToleranceFields : crop_db.crops[c][f] > 0

\* C19: a calculator that loaded its catalog holds only crop records with
\* every required field and positive tolerances (loading anything else
\* fails), so calculate_risk_score never divides by zero, never misses a
\* field, and returns factor risks in [0, 1].
C19_CatalogValidatedAtLoad ==
    /\ (last.op = "RiskCalculator" /\ last.status = "ok") =>
            ValidCatalog(last.crop_db)
    /\ (last.op = "calculate_risk_score" /\ "crop_db" \in DOMAIN last) =>
            /\ last.result.status = "ok"
            /\ \A f \in FactorSet :
                  InUnit(last.result.analysis.factor_risks[f], FOne)

\* C20: an assessment request for a crop the catalog lacks is answered
\* with the error (HTTP 400, 'Invalid crop'), and nothing was computed for
\* it: no environmental data fetched, neither the learned model nor the
\* rule engine called, no recommendations generated, nothing persisted,
\* the model object and the file untouched.
C20_UnknownCropRejected ==
    [][(last'.op = "assess_risk" /\ last'.crop \notin DOMAIN CropDb.crops) =>
          /\ last'.result.http = 400
          /\ last'.result.error = "Invalid crop"
          /\ last'.result.calls = <<>>
          /\ DOMAIN last'.result = {"http", "error", "calls"}
          /\ UNCHANGED <<self, file, saved>>]_vars

\* The request is rejected although the model object is trained and would
\* have been asked.
C20_Witness ==
    /\ last.op = "assess_risk"
    /\ last.crop = "quinoa"
    /\ last.result.http = 400
    /\ last.result.calls = <<>>
    /\ self.is_trained

----------------------------------------------------------------------------
(* Factor risks, weights and formula (C21 - C30)                           *)

\* The state after a factor risk function returned for one factor.
FactorRiskCall(factor) ==
    /\ inp.kind = "factor"
    /\ last.op = "_calculate_risk"
    /\ last.factor = factor

\* min(|x - opt| / tol, 1), written from the formula and not from the code.
BaseRisk(x, opt, tol) ==
    LET d == IF x >= opt THEN x - opt ELSE opt - x
        q == (d * FOne) \div tol
    IN  IF q < FOne THEN q ELSE FOne

\* C21: the moisture risk is min(|m - opt| / tol, 1), plus 0.3 re-clamped to
\* 1 when m < opt - tol, and for the crop there is a deviation d at which
\* the risk at opt - d is strictly greater than the risk at opt + d.
C21_MoistureDeficitPenalized ==
    FactorRiskCall("moisture") =>
        LET crop_data == CropDb.crops[inp.crop]
            opt == crop_data.optimal_moisture
            tol == crop_data.moisture_tolerance
            base == BaseRisk(last.value, opt, tol)
            bonus == (3 * FOne) \div 10
        IN  /\ last.risk = IF last.value < opt - tol
                            THEN (IF base + bonus < FOne THEN base + bonus
                                                         ELSE FOne)
                            ELSE base
            /\ \E d \in 1..opt :
                    _calculate_moisture_risk(opt - d, crop_data)
                        > _calculate_moisture_risk(opt + d, crop_data)

\* x + bonus tenths, clamped to 1 again.
WithBonus(x, tenths) ==
    LET y == x + (tenths * FOne) \div 10
    IN  IF y < FOne THEN y ELSE FOne

\* C22: for every catalog crop and every value, temperature risk is
\* min(|t - opt| / tol, 1) plus 0.2 re-clamped when |t - opt| > 2 tol,
\* humidity risk is min(|h - opt| / tol, 1), and rainfall risk is
\* min(|r - opt| / tol, 1) plus 0.2 re-clamped when r < opt - tol.
C22_FactorRiskFormulas ==
    LET crop_data == CropDb.crops[inp.crop]
        x == last.value
    IN  /\ FactorRiskCall("temperature") =>
                LET opt == crop_data.optimal_temp
                    tol == crop_data.temp_tolerance
                    base == BaseRisk(x, opt, tol)
                IN  last.risk = IF x - opt > 2 * tol \/ opt - x > 2 * tol
                                THEN WithBonus(base, 2) ELSE base
        /\ FactorRiskCall("humidity") =>
                last.risk = BaseRisk(x, crop_data.optimal_humidity,
                                     crop_data.humidity_tolerance)
        /\ FactorRiskCall("rainfall") =>
                LET opt == crop_data.optimal_rainfall
                    tol == crop_data.rainfall_tolerance
                    base == BaseRisk(x, opt, tol)
                IN  last.risk = IF x < opt - tol
                                THEN WithBonus(base, 2) ELSE base

\* Wheat (optimal_temp 20, tolerance 5) at 35 degrees, beyond twice the
\* tolerance, has temperature risk 1.0.
C22_Witness ==
    /\ FactorRiskCall("temperature")
    /\ inp.crop = "wheat"
    /\ last.value = 35
    /\ last.value - CropDb.crops["wheat"].optimal_temp
           > 2 * CropDb.crops["wheat"].temp_tolerance
    /\ last.risk = FOne

\* C23: NDVI risk is min((opt - ndvi) / tol, 1) below the optimum and
\* min((ndvi - opt) / (2 tol), 0.5) at or above it, so it never exceeds 0.5
\* at or above the optimum and is 0 at the optimum.
C23_NdviRiskAsymmetric ==
    FactorRiskCall("ndvi") =>
        LET crop_data == CropDb.crops[inp.crop]
            opt == crop_data.optimal_ndvi
            tol == crop_data.ndvi_tolerance
            x == last.value
            below == ((opt - x) * FOne) \div tol
            above == ((x - opt) * FOne) \div (2 * tol)
        IN  /\ x < opt =>
                   last.risk = (IF below < FOne THEN below ELSE FOne)
            /\ x >= opt =>
                   /\ last.risk = (IF 2 * above < FOne THEN above
                                                       ELSE FOne \div 2)
                   /\ 2 * last.risk <= FOne
            /\ x = opt => last.risk = 0

\* Wheat (optimal_ndvi 0.60, tolerance 0.20) at NDVI 0.75 has risk 0.375.
C23_Witness ==
    /\ FactorRiskCall("ndvi")
    /\ inp.crop = "wheat"
    /\ last.value = 75
    /\ last.risk * 1000 = 375 * FOne

\* The optimum and tolerance of a factor with a bonus branch.
BonusOptimal(factor, crop_data) ==
    CASE factor = "temperature" -> crop_data.optimal_temp
      [] factor = "moisture" -> crop_data.optimal_moisture
      [] factor = "rainfall" -> crop_data.optimal_rainfall

BonusTolerance(factor, crop_data) ==
    CASE factor = "temperature" -> crop_data.temp_tolerance
      [] factor = "moisture" -> crop_data.moisture_tolerance
      [] factor = "rainfall" -> crop_data.rainfall_tolerance

\* The condition of a factor's bonus branch.
BonusCondition(factor, x, opt, tol) ==
    CASE factor = "temperature" -> x > opt + 2 * tol \/ x < opt - 2 * tol
      [] factor = "moisture" -> x < opt - tol
      [] factor = "rainfall" -> x < opt - tol

CategoryWeightsCall ==
    /\ inp.kind = "category"
    /\ last.op = "_get_category_weights"

\* A row of the weight table, in hundredths.
Row(t, m, h, v, r) ==
    [temperature |-> [num |-> t, den |-> 100],
     moisture |-> [num |-> m, den |-> 100],
     humidity |-> [num |-> h, den |-> 100],
     ndvi |-> [num |-> v, den |-> 100],
     rainfall |-> [num |-> r, den |-> 100]]

\* C24: _get_category_weights returns the fixed table of each of the four
\* known categories, over exactly the five factor keys, and for any other
\* string the moderate_moisture table: temperature 0.20, moisture 0.25,
\* humidity 0.20, ndvi 0.25, rainfall 0.10.
C24_CategoryWeights ==
    CategoryWeightsCall =>
        /\ DOMAIN last.weights = FactorSet
        /\ last.weights =
              CASE inp.category = "high_moisture" -> Row(15, 35, 20, 20, 10)
                [] inp.category = "moderate_moisture" ->
                       Row(20, 25, 20, 25, 10)
                [] inp.category = "drought_tolerant" ->
                       Row(30, 15, 20, 25, 10)
                [] inp.category = "temperature_sensitive" ->
                       Row(35, 20, 15, 20, 10)
                [] OTHER -> Row(20, 25, 20, 25, 10)

\* A category the table lacks got the moderate_moisture table.
C24_Witness ==
    /\ CategoryWeightsCall
    /\ inp.category = "unknown"
    /\ last.weights.moisture.num = 25
    /\ last.weights.ndvi.num = 25

\* The sum of the numerators of a weight table with a common denominator.
WeightTotal(weights) ==
    weights.temperature.num + weights.moisture.num + weights.humidity.num
        + weights.ndvi.num + weights.rainfall.num

\* C25: every weight table the rule engine returns, the default for unknown
\* categories included, has non-negative entries that sum to 1.0; and the
\* weighted sum of the factor risks, each in [0, 1], is in [0, 1].
C25_WeightsSumToOne ==
    /\ CategoryWeightsCall =>
          /\ \A f \in FactorSet :
                 /\ last.weights[f].num >= 0
                 /\ last.weights[f].den = WOne
          /\ WeightTotal(last.weights) = WOne
    /\ (inp.kind = "observation" /\ last.op = "calculate_risk_score") =>
          LET a == last.result
              sum == a.weights.temperature.num * a.factor_risks.temperature
                   + a.weights.moisture.num * a.factor_risks.moisture
                   + a.weights.humidity.num * a.factor_risks.humidity
                   + a.weights.ndvi.num * a.factor_risks.ndvi
                   + a.weights.rainfall.num * a.factor_risks.rainfall
          IN  /\ \A f \in FactorSet : a.factor_risks[f] \in 0..FOne
              /\ WeightTotal(a.weights) = WOne
              /\ sum \in 0..SOne
              /\ a.risk_score = sum

\* An observation whose five factor risks are all 1.0 scored exactly 1.0.
C25_Witness ==
    /\ inp.kind = "observation"
    /\ last.op = "calculate_risk_score"
    /\ \A f \in FactorSet : last.result.factor_risks[f] = FOne
    /\ last.result.risk_score = SOne

\* The state after _create_risk_formula returned.
RiskFormulaCall ==
    /\ inp.kind = "importance"
    /\ last.op = "_create_risk_formula"

\* The position of a column in the fixed order of the feature vector.
RawColumn ==
    [temperature |-> 1, moisture |-> 2, humidity |-> 3, ndvi |-> 4,
     rainfall |-> 5]
DeviationColumn ==
    [temperature |-> 11, moisture |-> 12, humidity |-> 13, ndvi |-> 14,
     rainfall |-> 15]

\* C26: formula_weights has exactly the five factor keys; each bucket is the
\* importance of the factor's raw column plus that of its deviation column
\* and nothing else (interaction and categorical-code columns go to no
\* bucket); the five are divided by their total, so they sum to 1.0, unless
\* the total is 0, and then all five are 0.
C26_FormulaBuckets ==
    RiskFormulaCall =>
        LET imp == inp.feature_importance
            bucket == [f \in FactorSet |->
                          imp[RawColumn[f]] + imp[DeviationColumn[f]]]
            total == bucket.temperature + bucket.moisture + bucket.humidity
                       + bucket.ndvi + bucket.rainfall
            w == last.formula_weights
        IN  /\ DOMAIN w = FactorSet
            /\ total > 0 =>
                  /\ \A f \in FactorSet :
                         w[f].num = bucket[f] /\ w[f].den = total
                  /\ w.temperature.num + w.moisture.num + w.humidity.num
                        + w.ndvi.num + w.rainfall.num = total
            /\ total = 0 => \A f \in FactorSet : w[f].num = 0

\* Importance on an interaction column, on a categorical-code column, on
\* temperature and on rainfall_deviation alone gave temperature and
\* rainfall one half each.
C26_Witness ==
    /\ RiskFormulaCall
    /\ inp.feature_importance[6] > 0
    /\ inp.feature_importance[8] > 0
    /\ inp.feature_importance[1] > 0
    /\ inp.feature_importance[11] = 0
    /\ inp.feature_importance[15] > 0
    /\ last.formula_weights.temperature.num * 2
           = last.formula_weights.temperature.den
    /\ last.formula_weights.rainfall.num * 2
           = last.formula_weights.rainfall.den

\* Rows with pairwise distinct values in every position of the vector.
DistinctRows ==
    {[temperature |-> 21, moisture |-> 83, humidity |-> 62, ndvi |-> 57,
      rainfall |-> 97],
     [temperature |-> 36, moisture |-> 44, humidity |-> 91, ndvi |-> 75,
      rainfall |-> 130]}

\* C27: the vector predict_risk builds has 15 entries in the fixed order
\* (5 raw values, crop code, category code, temp * moisture,
\* humidity * ndvi, temp * humidity, 5 absolute deviations), and each of its
\* positions holds the quantity that the column of the same position in
\* feature_columns held in training; after a training call that completed,
\* feature_columns names all 15.
C27_SameColumnOrder ==
    \A crop \in CatalogCrops, o \in DistinctRows \cup RequestObservations,
       crop_code \in {3}, category_code \in {1} :
        LET c == Catalog(self.crop_db).crops[crop]
            v == FeatureVectorOf(c, o, crop_code, category_code)
        IN  /\ Len(v) = 15
            /\ v = <<o.temperature, o.moisture, o.humidity, o.ndvi,
                     o.rainfall, crop_code, category_code,
                     o.temperature * o.moisture, o.humidity * o.ndvi,
                     o.temperature * o.humidity,
                     Abs(o.temperature - c.optimal_temp),
                     Abs(o.moisture - c.optimal_moisture),
                     Abs(o.humidity - c.optimal_humidity),
                     Abs(o.ndvi - c.optimal_ndvi),
                     Abs(o.rainfall - c.optimal_rainfall)>>
            /\ Len(self.feature_columns) <= Len(v)
            /\ \A i \in 1..Len(self.feature_columns) :
                   v[i] = TrainingColumnValue(self.feature_columns[i], c, o,
                                              crop_code, category_code)
            /\ (last.op = "train" /\ last.status = "ok") =>
                   Len(self.feature_columns) = Len(v)

\* A training call completed and recorded the 15 columns.
C27_Witness ==
    /\ last.op = "train"
    /\ last.status = "ok"
    /\ self.is_trained
    /\ Len(self.feature_columns) = 15
    /\ self.feature_columns[9] = "humidity_ndvi"

\* C28: a prediction or an assessment that directly follows a training call
\* that completed, for a catalog crop of its samples, uses the learned
\* model: predict_risk returns a result, and the assessment's headline
\* score and level are that result's and not the rule engine's.
C28_TrainedCropsUseLearnedModel ==
    [][(/\ last.op = "train"
        /\ last.status = "ok"
        /\ last'.op \in {"predict_risk", "assess_risk"}
        /\ last'.crop \in last.crops \cap CatalogCrops) =>
          IF last'.op = "predict_risk"
          THEN last'.result.status = "ok"
          ELSE /\ last'.result.http = 200
               /\ last'.result.ml_prediction.status = "ok"
               /\ last'.result.risk_score
                     = last'.result.ml_prediction.risk_score]_vars

\* C30: when generate_recommendations, given the rule engine's assessment,
\* produces a per-factor entry, its first entry is that of the assessment's
\* weakest_factor, also when several factors share the highest risk; and it
\* produces no per-factor entry exactly when the weakest factor's risk is
\* at most 0.3.
C30_FirstEntryIsWeakestFactor ==
    (inp.kind = "recommend" /\ last.op = "generate_recommendations") =>
        LET recs == last.result
            n == Len(recs) - 1
            weakest == last.risk_analysis.weakest_factor
            weakest_risk == last.risk_analysis.factor_risks[weakest]
        IN  /\ n >= 1 =>
                  /\ recs[1].factor = weakest
                  /\ recs[1].priority = weakest_risk
            /\ n = 0 <=> weakest_risk * 10 <= 3 * FOne

\* Two factors share the highest risk and the entry of the earlier one, the
\* weakest factor, is first.
C30_Witness ==
    /\ inp.kind = "recommend"
    /\ last.op = "generate_recommendations"
    /\ Len(last.result) >= 4
    /\ last.result[1].priority = last.result[2].priority
    /\ last.result[2].priority > last.result[3].priority
    /\ last.result[1].factor = "moisture"
    /\ last.result[2].factor = "rainfall"
    /\ last.risk_analysis.factor_risks.temperature > 0
    /\ last.risk_analysis.weakest_factor = "moisture"


====
